---- MODULE Spec2Model ----
(***************************************************************************)
(* Model of the drift signal and cross-metric association engine of        *)
(* mindforge-guard: the JSONL log readers, the UTC daily series builders,  *)
(* the drift trend analyzer with its dominance ranking, the association    *)
(* engine (Pearson, lag sweep, block bootstrap) and the command surface    *)
(* (runGuard, runAudit) that emits the bundles.                            *)
(*                                                                         *)
(* Time is counted in ticks since the Unix epoch; one hour is TicksPerHour *)
(* ticks, so the source's 24*60*60*1000 ms is DAY ticks.  An ISO-8601      *)
(* string of an instant is the record [iso |-> ticks]; Date.parse of any   *)
(* other text is NaN.                                                      *)
(***************************************************************************)
EXTENDS Integers, Sequences, FiniteSets, TLC

VARIABLES
  events,   \* .mindforge/drift/events.jsonl : [st, lines]
  audit,    \* audit.jsonl                    : [st, lines]
  now,      \* the wall clock (Date.now()), in ticks
  inp,      \* arguments handed to a function applied on its own
  out       \* what the last operation returned

vars == <<events, audit, now, inp, out>>

(***************************************************************************)
(* Bounds of the model.                                                    *)
(***************************************************************************)
TicksPerHour == 2
\* a numeric argument is a multiple of 1 / ArgDen
ArgDen == 2
\* Math.random() returns a multiple of 1 / RandomDen
RandomDen == 8
MaxLines == 2

(***************************************************************************)
(* Time.                                                                   *)
(***************************************************************************)
HoursPerDay == 24
DAY == HoursPerDay * TicksPerHour

\* The clock values the model visits: 09:00 UTC of day 20000 after the epoch
\* (October 2024) and later.
EpochDay0 == 20000
Now0 == EpochDay0 * DAY + 9 * TicksPerHour
NowSet == {Now0, Now0 + 16 * TicksPerHour}

\* new Date(ms).toISOString()
toISOString(ms) == [iso |-> ms]

\* A JavaScript number that may be NaN.
NaN == [nan |-> TRUE, n |-> 0]
Num(n) == [nan |-> FALSE, n |-> n]

\* !x for a number x: NaN and 0 are falsy.
Falsy(x) == x.nan \/ x.n = 0

(***************************************************************************)
(* JSON values of the fields the readers look at.                          *)
(*   a string     [type |-> "string", date |-> TRUE,  ms |-> t, s |-> ""]  *)
(*                (an ISO instant), or date |-> FALSE with its text s      *)
(*   a number     [type |-> "number", ms |-> n, s |-> unit]: an epoch      *)
(*                number of n ticks written in milliseconds (unit "ms")    *)
(*                or in seconds (unit "s"), or a plain number n (unit "") *)
(*   undefined    the field is absent;  null  the JSON null                *)
(*   badobject    an object such as {"toString":1}: converting it to a     *)
(*                primitive (String(), Number(), Date.parse) throws        *)
(***************************************************************************)
IsoStr(t) == [type |-> "string", date |-> TRUE, ms |-> t, s |-> ""]
Text(s) == [type |-> "string", date |-> FALSE, ms |-> 0, s |-> s]
Undefined == [type |-> "undefined", date |-> FALSE, ms |-> 0, s |-> ""]
BadObject == [type |-> "badobject", date |-> FALSE, ms |-> 0, s |-> ""]
Null == [type |-> "null", date |-> FALSE, ms |-> 0, s |-> ""]
EpochMs(t) == [type |-> "number", date |-> FALSE, ms |-> t, s |-> "ms"]
EpochSec(t) == [type |-> "number", date |-> FALSE, ms |-> t, s |-> "s"]
Number(n) == [type |-> "number", date |-> FALSE, ms |-> n, s |-> ""]

\* Date.parse(v) for a value that converts to a string without throwing.
DateParse(v) == IF v.type = "string" /\ v.date THEN Num(v.ms) ELSE NaN

\* Does converting v to a primitive throw?
ToPrimitiveThrows(v) == v.type = "badobject"

\* JavaScript truthiness of a field value.
Truthy(v) == \/ v.type = "badobject"
             \/ v.type = "string" /\ (v.date \/ v.s # "")

(***************************************************************************)
(* windowToDays                                                            *)
(***************************************************************************)
Windows == {"7d", "14d", "30d", "1y"}

windowToDays(w) == IF w = "14d" THEN 14 ELSE IF w = "30d" THEN 30 ELSE 7

\* Date.UTC(y, m, d) of an instant: its UTC midnight.
UtcMidnight(ms) == (ms \div DAY) * DAY

utcDayStartIso(ts) == toISOString(UtcMidnight(ts))

\* Off by one: the window starts `days` days before today's midnight.
daysBackIso_Mut(days, nowMs) ==
  LET end == UtcMidnight(nowMs)
      start == end - days * DAY
  IN [startIso |-> toISOString(start), endIso |-> toISOString(end)]

daysBackIso(days, nowMs) ==
  LET end == UtcMidnight(nowMs)
      start == end - (days - 1) * DAY
  IN [startIso |-> toISOString(start), endIso |-> toISOString(end)]

(***************************************************************************)
(* The log files.  A file is missing, a regular file holding lines, or a   *)
(* path that exists and cannot be read (a directory): fs.existsSync is     *)
(* true and fs.readFileSync throws.                                        *)
(***************************************************************************)
Missing == [st |-> "missing", lines |-> <<>>]
Unreadable == [st |-> "dir", lines |-> <<>>]
File(ls) == [st |-> "file", lines |-> ls]

\* fs.readFileSync throws on this file (after fs.existsSync said it exists).
ReadThrows(f) == f.st = "dir"

\* The lines read from a file that is present; none from a missing one.
LinesOf(f) == IF f.st = "file" THEN f.lines ELSE <<>>

\* A value returned, or an exception thrown.
Ret(v) == [threw |-> FALSE, val |-> v]
Throw == [threw |-> TRUE, val |-> <<>>]

(***************************************************************************)
(* Lines of the drift event log.  json = FALSE is a line JSON.parse        *)
(* rejects.                                                                *)
(***************************************************************************)
EventLine(kind, v, ts, module) ==
  [json |-> TRUE, kind |-> kind, v |-> v, ts |-> ts, module |-> module]

BadLine == [json |-> FALSE, kind |-> "", v |-> 0, ts |-> Undefined, module |-> Undefined]

DriftEvent(ts, m) == EventLine("drift_event", 2, ts, m)

\* Module names in localeCompare order.
ModuleOrder ==
  <<"alpha", "beta", "core", "delta", "edge", "eta", "gamma", "kappa", "unknown", "zeta">>

ModuleRank(m) == CHOOSE i \in 1..Len(ModuleOrder) : ModuleOrder[i] = m

\* a.localeCompare(b) < 0, = 0, > 0
localeCompare(a, b) == ModuleRank(a) - ModuleRank(b)

\* series_from_drift_events.mjs: keeps drift events of schema 2 whose ts is a string.
parseJsonlSafeSeries(f) ==
  IF f.st = "missing" THEN Ret(<<>>)
  ELSE IF ReadThrows(f) THEN Throw
  ELSE LET Keep(l) == l.json /\ l.kind = "drift_event" /\ l.v = 2 /\ l.ts.type = "string"
       IN Ret(SelectSeq(f.lines, Keep))

(***************************************************************************)
(* A JavaScript Map as the sequence of its entries in insertion order.     *)
(***************************************************************************)
MapHas(rows, t) == \E i \in 1..Len(rows) : rows[i].t = t

MapIndex(rows, t) == CHOOSE i \in 1..Len(rows) : rows[i].t = t

MapSet(rows, row) ==
  IF MapHas(rows, row.t)
  THEN [rows EXCEPT ![MapIndex(rows, row.t)] = row]
  ELSE Append(rows, row)

(***************************************************************************)
(* buildDriftDailySeries                                                   *)
(***************************************************************************)
\* for (let i = 0; i < days; i++) rows.set(t_i, {t_i, events: 0, modules: {}})
RECURSIVE PrefillDrift(_, _, _, _)
PrefillDrift(rows, startMs, i, days) ==
  IF i >= days THEN rows
  ELSE PrefillDrift(
         MapSet(rows, [t |-> toISOString(startMs + i * DAY), events |-> 0, modules |-> {}]),
         startMs, i + 1, days)

\* The pass without the test on the module value.
DriftRowStep_Mut(rows, e, startMs, endMs) ==
  LET ts == DateParse(e.ts) IN
  IF Falsy(ts) \/ ts.n < startMs \/ ts.n >= endMs THEN rows
  ELSE LET t == utcDayStartIso(ts.n) IN
       IF ~MapHas(rows, t) THEN rows
       ELSE LET i == MapIndex(rows, t)
                r == rows[i]
            IN [rows EXCEPT ![i] = [t |-> r.t, events |-> r.events + 1,
                                    modules |-> r.modules \cup {e.module.s}]]

\* One pass of the loop over the parsed events.
DriftRowStep(rows, e, startMs, endMs) ==
  LET ts == DateParse(e.ts) IN
  IF Falsy(ts) \/ ts.n < startMs \/ ts.n >= endMs THEN rows
  ELSE LET t == utcDayStartIso(ts.n) IN
       IF ~MapHas(rows, t) THEN rows
       ELSE LET i == MapIndex(rows, t)
                r == rows[i]
                mods == IF e.module.type = "string" /\ Truthy(e.module)
                        THEN r.modules \cup {e.module.s} ELSE r.modules
            IN [rows EXCEPT ![i] = [t |-> r.t, events |-> r.events + 1, modules |-> mods]]

RECURSIVE DriftRows(_, _, _, _)
DriftRows(rows, all, startMs, endMs) ==
  IF all = <<>> THEN rows
  ELSE DriftRows(DriftRowStep(rows, Head(all), startMs, endMs), Tail(all), startMs, endMs)

buildDriftDailySeries(eventsFile, window, nowMs) ==
  LET days == windowToDays(window)
      back == daysBackIso(days, nowMs)
      startMs == back.startIso.iso
      endMs == back.endIso.iso + DAY
      rows0 == PrefillDrift(<<>>, startMs, 0, days)
      all == parseJsonlSafeSeries(eventsFile)
  IN IF all.threw THEN Throw
     ELSE LET rows == DriftRows(rows0, all.val, startMs, endMs)
          IN Ret([i \in 1..Len(rows) |->
                    [t |-> rows[i].t,
                     drift_events |-> rows[i].events,
                     drift_unique_modules |-> Cardinality(rows[i].modules)]])

(***************************************************************************)
(* Records of the audit log (loose schema).  Of the candidate fields of    *)
(* extractTs the model carries ts, time, snapshot.ts, ts_ms and ts_s, in   *)
(* the source's priority order; of the score fields risk_score,            *)
(* snapshot.risk_score and risk.score.                                     *)
(***************************************************************************)
AuditRec(ts, time, snapshot_ts, ts_ms, ts_s, risk_score, snapshot_risk_score, risk_dot_score) ==
  [json |-> TRUE, ts |-> ts, time |-> time, snapshot_ts |-> snapshot_ts,
   ts_ms |-> ts_ms, ts_s |-> ts_s, risk_score |-> risk_score,
   snapshot_risk_score |-> snapshot_risk_score, risk_dot_score |-> risk_dot_score]

BadAuditLine ==
  [json |-> FALSE, ts |-> Undefined, time |-> Undefined, snapshot_ts |-> Undefined,
   ts_ms |-> Undefined, ts_s |-> Undefined, risk_score |-> Undefined,
   snapshot_risk_score |-> Undefined, risk_dot_score |-> Undefined]

\* risk_trend.mjs: every line that parses is kept.
parseJsonlSafeAudit(f) ==
  IF f.st = "missing" THEN Ret(<<>>)
  ELSE IF ReadThrows(f) THEN Throw
  ELSE LET Keep(l) == l.json IN Ret(SelectSeq(f.lines, Keep))

\* 1e12 ms after the epoch (2001-09-09T01:46:40Z), rounded up to a tick.
E12Days == 11574
E12 == E12Days * DAY + 2 * TicksPerHour

\* typeof cand === "string" && cand.trim()
NonBlankString(v) == v.type = "string" /\ (v.date \/ (v.s # "" /\ v.s # " "))

\* The instant a numeric candidate is read as: cand >= 1e12 ? cand : cand * 1000.
\* A number written in seconds is below 1e12 for every date the model visits.
EpochRead(v) ==
  IF v.s = "ms" THEN (IF v.ms >= E12 THEN v.ms ELSE v.ms * 1000)
  ELSE IF v.s = "s" THEN v.ms
  ELSE v.ms * 1000

cands(obj) == <<obj.ts, obj.time, obj.snapshot_ts, obj.ts_ms, obj.ts_s>>

\* The loop of extractTs over the candidates: the first non-blank string
\* (whatever it holds) or finite number wins.  The "last resort" after the
\* loop only looks at strings the loop has already returned, so it adds nothing.
RECURSIVE extractTsFrom(_)
extractTsFrom(cs) ==
  IF cs = <<>> THEN Null
  ELSE LET cand == Head(cs) IN
       IF NonBlankString(cand) THEN cand
       ELSE IF cand.type = "number" THEN IsoStr(EpochRead(cand))
       ELSE extractTsFrom(Tail(cs))

extractTs(obj) == extractTsFrom(cands(obj))

\* a ?? b
Coalesce(a, b) == IF a.type \in {"undefined", "null"} THEN b ELSE a

\* Number(cand); the score is a plain number, else NaN -> null.
\* Number(null) is 0; Number of a {"toString":1} object throws.
extractRiskScore(obj) ==
  LET cand == Coalesce(obj.risk_score,
                Coalesce(obj.snapshot_risk_score, obj.risk_dot_score))
  IN IF ToPrimitiveThrows(cand) THEN Throw
     ELSE IF cand.type = "number" THEN Ret(Num(cand.ms))
     ELSE IF cand.type = "null" THEN Ret(Num(0))
     ELSE IF cand.type = "string" /\ ~cand.date /\ cand.s \in {"", " "} THEN Ret(Num(0))
     ELSE Ret(NaN)

(***************************************************************************)
(* Arithmetic helpers.  Fractions are carried as scaled integers:          *)
(* x.toFixed(2) of a/b is RoundDiv(100 * a, b) hundredths.                 *)
(***************************************************************************)
Abs(x) == IF x < 0 THEN -x ELSE x
Max(a, b) == IF a >= b THEN a ELSE b
Min(a, b) == IF a <= b THEN a ELSE b

\* a / b rounded to the nearest integer, halves away from zero (b > 0).
RoundDiv(a, b) ==
  IF a >= 0 THEN (2 * a + b) \div (2 * b) ELSE -((2 * (-a) + b) \div (2 * b))

RECURSIVE SumSeq(_)
SumSeq(s) == IF s = <<>> THEN 0 ELSE Head(s) + SumSeq(Tail(s))

\* xs.slice().sort((a, b) => a - b)
SortAsc(s) == SortSeq(s, LAMBDA a, b : a < b)

\* quantile(sorted, q) for q = qPct / 100, in hundredths of the unit of the
\* values: pos = (len - 1) * q, base = floor(pos), rest = pos - base,
\* v0 + rest * (v1 - v0).
quantile(sorted, qPct) ==
  IF Len(sorted) = 0 THEN 0
  ELSE LET pos100 == (Len(sorted) - 1) * qPct
           base == pos100 \div 100
           rest100 == pos100 % 100
           v0 == sorted[base + 1]
           v1 == sorted[Min(base + 1, Len(sorted) - 1) + 1]
       IN 100 * v0 + rest100 * (v1 - v0)

(***************************************************************************)
(* readRiskTrendFromAuditJsonl / buildRiskDailySeries                      *)
(***************************************************************************)
RECURSIVE PrefillRisk(_, _, _, _)
PrefillRisk(rows, startMs, i, days) ==
  IF i >= days THEN rows
  ELSE PrefillRisk(
         MapSet(rows, [t |-> toISOString(startMs + i * DAY), scores |-> <<>>, n |-> 0]),
         startMs, i + 1, days)

\* One pass of the loop over the parsed records; acc = [threw, rows].
RiskRowStep(acc, obj, startMs, endMs) ==
  LET tsStr == extractTs(obj) IN
  IF tsStr.type = "null" THEN acc
  ELSE LET ts == DateParse(tsStr) IN
       IF Falsy(ts) \/ ts.n < startMs \/ ts.n >= endMs THEN acc
       ELSE LET t == utcDayStartIso(ts.n) IN
            IF ~MapHas(acc.rows, t) THEN acc
            ELSE LET i == MapIndex(acc.rows, t)
                     row == acc.rows[i]
                     score == extractRiskScore(obj)
                 IN IF score.threw THEN [threw |-> TRUE, rows |-> acc.rows]
                    ELSE [threw |-> FALSE,
                          rows |-> [acc.rows EXCEPT ![i] =
                             [t |-> row.t,
                              scores |-> IF score.val.nan THEN row.scores
                                         ELSE Append(row.scores, score.val.n),
                              n |-> row.n + 1]]]

RECURSIVE RiskRows(_, _, _, _)
RiskRows(acc, all, startMs, endMs) ==
  IF all = <<>> \/ acc.threw THEN acc
  ELSE RiskRows(RiskRowStep(acc, Head(all), startMs, endMs), Tail(all), startMs, endMs)

\* risk_score_avg and risk_score_p95 are in hundredths (toFixed(2)).
readRiskTrendFromAuditJsonl(auditFile, window, nowMs) ==
  LET days == windowToDays(window)
      startMs == daysBackIso(days, nowMs).startIso.iso
      endMs == startMs + days * DAY
      rows0 == PrefillRisk(<<>>, startMs, 0, days)
      all == parseJsonlSafeAudit(auditFile)
  IN IF all.threw THEN Throw
     ELSE LET acc == RiskRows([threw |-> FALSE, rows |-> rows0], all.val, startMs, endMs)
          IN IF acc.threw THEN Throw
             ELSE Ret([i \in 1..Len(acc.rows) |->
                    LET r == acc.rows[i]
                        scores == SortAsc(r.scores)
                    IN [t |-> r.t,
                        risk_events |-> r.n,
                        risk_score_avg |->
                          IF Len(scores) > 0 THEN RoundDiv(100 * SumSeq(scores), Len(scores)) ELSE 0,
                        risk_score_p95 |->
                          IF Len(scores) > 0 THEN quantile(scores, 95) ELSE 0]])

buildRiskDailySeries(auditPath, window, nowMs) ==
  readRiskTrendFromAuditJsonl(auditPath, window, nowMs)

(***************************************************************************)
(* IEEE 754 doubles.  A double of the range met here (0 <= x < 2^15, a     *)
(* multiple of 2^-60) is held exactly as five limbs <<i, f1, f2, f3, f4>>  *)
(* of 15 bits: x = i + f1/2^15 + ... + f4/2^60.  A double with binary      *)
(* exponent e keeps 53 significant bits, so its last kept bit has weight   *)
(* 2^(e-52): of an exact result the lowest e+8 bits of the 60 are rounded  *)
(* away, to nearest, ties to even.  A multiple of 2^-60 below 1/256 has at *)
(* most 52 significant bits and is a double as it stands.                  *)
(***************************************************************************)
Limb == 2^15

ZeroLimbs == <<0, 0, 0, 0, 0>>

\* floor(log2(v)) for an integer 1 <= v < 2^31.
Log2(v) == CHOOSE k \in 0..30 : v \div 2^k = 1

\* The binary exponent of x >= 1/256.
ExponentOf(x) == IF x[1] > 0 THEN Log2(x[1]) ELSE Log2(x[2]) - 15

\* Carries of the lower limbs are taken into the limbs above them.
Normalize(x) ==
  LET g4 == x[5] % Limb
      s3 == x[4] + x[5] \div Limb
      g3 == s3 % Limb
      s2 == x[3] + s3 \div Limb
      g2 == s2 % Limb
      s1 == x[2] + s2 \div Limb
      g1 == s1 % Limb
  IN <<x[1] + s1 \div Limb, g1, g2, g3, g4>>

\* x / d to 60 fractional bits by long division: quotient q and remainder r.
FixDivide(x, d) ==
  LET a2 == (x[1] % d) * Limb + x[2]
      a3 == (a2 % d) * Limb + x[3]
      a4 == (a3 % d) * Limb + x[4]
      a5 == (a4 % d) * Limb + x[5]
  IN [q |-> <<x[1] \div d, a2 \div d, a3 \div d, a4 \div d, a5 \div d>>, r |-> a5 % d]

\* The double nearest to x + (r / d) * 2^-60 when the lowest t bits are rounded away.
RoundAt(x, r, d, t) ==
  LET low30 == x[4] * Limb + x[5]
      low == low30 % 2^t
      tail == 2 * (low * d + r)
      unit == 2^t * d
      up == \/ tail > unit
            \/ tail = unit /\ ((low30 - low) \div 2^t) % 2 = 1
  IN Normalize(<<x[1], x[2], x[3], 0, (low30 - low) + (IF up THEN 2^t ELSE 0)>>)

Round53(x, r, d) ==
  IF x = ZeroLimbs THEN ZeroLimbs
  ELSE IF x[1] = 0 /\ x[2] < 2^7 /\ r = 0 THEN x
  ELSE RoundAt(x, r, d, ExponentOf(x) + 8)

RoundedQuotient(x, d) == Round53(FixDivide(x, d).q, FixDivide(x, d).r, d)

\* The double c / d of two integers, 0 <= c < 2^15 * d, 0 < d <= 10000.
FloatDiv(c, d) == RoundedQuotient(<<c, 0, 0, 0, 0>>, d)

\* The double a + b of two doubles.
FloatAdd(a, b) == Round53(Normalize([i \in 1..5 |-> a[i] + b[i]]), 0, 1)

\* The double a - b of two doubles a >= b.
FloatSub(a, b) == Round53(Normalize([i \in 1..5 |-> a[i] - b[i]]), 0, 1)

\* a > b for doubles held in limbs.
LimbsGreater(a, b) ==
  \E i \in 1..5 : a[i] > b[i] /\ \A j \in 1..(i - 1) : a[j] = b[j]

(***************************************************************************)
(* slope > epsilon, for slope = a - b rounded to a double and epsilon =    *)
(* 0.5.  The doubles next to 0.5 from above are 2^-53 apart and 0.5 has an *)
(* even significand, so the rounded difference exceeds 0.5 exactly when    *)
(* the exact difference exceeds 0.5 + 2^-54, that is a > b + 0.5 + 2^-54.  *)
(***************************************************************************)
SlopeAboveEpsilon(a, b) ==
  LimbsGreater(a, Normalize(<<b[1], b[2] + 2^14, b[3], b[4], b[5] + 2^6>>))

(***************************************************************************)
(* The mean of n copies of the double c = v / den as pearsonStats takes    *)
(* it: the copies are added one by one and the sum is divided by n.        *)
(***************************************************************************)
RECURSIVE FloatSum(_, _, _)
FloatSum(s, c, k) ==
  IF k = 0 THEN s
  ELSE LET t == FloatAdd(s, c)
       IN IF t = ZeroLimbs THEN FloatSum(ZeroLimbs, c, k - 1) ELSE FloatSum(t, c, k - 1)

MeanOfCopies(c, n) == RoundedQuotient(FloatSum(ZeroLimbs, c, n), n)

\* The sign of c - mean for n copies of c = v / den: 0 when the mean is c.
MeanResidue(v, den, n) ==
  IF v <= 0 \/ v % den = 0 THEN 0
  ELSE LET c == FloatDiv(v, den)
           m == MeanOfCopies(c, n)
       IN IF m = c THEN 0 ELSE IF LimbsGreater(c, m) THEN 1 ELSE -1

(***************************************************************************)
(* pearsonStats.  A series is a sequence of numbers Num(n) or NaN.  The    *)
(* sums are exact integers: with n = n_effective,                          *)
(*   N  = n * sum(x*y) - sum(x) * sum(y)   = n * num                       *)
(*   Dx = n * sum(x*x) - sum(x)^2          = n * dx      (Dy likewise)     *)
(* so den = 0 iff Dx = 0 or Dy = 0 and r = N / sqrt(Dx * Dy).  r and the   *)
(* zero tests do not change when a series is divided by a positive         *)
(* constant: each series is divided by the gcd g of its values before the  *)
(* sums are taken, and a variance is kept exactly as                       *)
(* [num, den, unit] = (num / den) * unit^2.  r is in ten-thousandths       *)
(* (toFixed(4)).                                                           *)
(***************************************************************************)
clamp(n, a, b) == Max(a, Min(b, n))

RECURSIVE GCD(_, _)
GCD(a, b) == IF b = 0 THEN a ELSE GCD(b, a % b)

RECURSIVE GcdSeq(_)
GcdSeq(s) == IF s = <<>> THEN 0 ELSE GCD(Abs(Head(s)), GcdSeq(Tail(s)))

\* Number.isFinite(x) && Number.isFinite(y), over the first min(len, len) indices.
FinitePairs(xs, ys) ==
  LET n == Min(Len(xs), Len(ys))
      idx == SelectSeq([i \in 1..n |-> i], LAMBDA i : ~xs[i].nan /\ ~ys[i].nan)
  IN [i \in 1..Len(idx) |-> <<xs[idx[i]].n, ys[idx[i]].n>>]

\* floor(sqrt(t)) by bisection between lo and hi (lo^2 <= t < (hi+1)^2).
RECURSIVE ISqrtIn(_, _, _)
ISqrtIn(t, lo, hi) ==
  IF lo >= hi THEN lo
  ELSE LET mid == (lo + hi + 1) \div 2
       IN IF mid * mid <= t THEN ISqrtIn(t, mid, hi) ELSE ISqrtIn(t, lo, mid - 1)

\* floor(a * 100^k / p) and the remainder, by long division (0 <= a, 0 < p).
RECURSIVE LongDiv(_, _, _, _)
LongDiv(q, rem, p, k) ==
  IF k = 0 THEN <<q, rem>>
  ELSE LongDiv(q * 100 + (rem * 100) \div p, (rem * 100) % p, p, k - 1)

\* Number(clamp(N / sqrt(P), -1, 1).toFixed(4)) in ten-thousandths, P > 0.
RoundedR(N, P) ==
  LET A == N * N
      d == LongDiv(A \div P, A % P, P, 4)
      T == 4 * d[1] + (4 * d[2]) \div P
      m == (ISqrtIn(T, 0, 46340) + 1) \div 2
  IN clamp(IF N < 0 THEN -m ELSE m, -10000, 10000)

ZeroVar == [num |-> 0, den |-> 1, unit |-> 1]

\* A series divided by the gcd g of its values: [g, v].
Normalised(vals) ==
  LET g == Max(1, GcdSeq(vals))
  IN [g |-> g, v |-> [i \in 1..Len(vals) |-> vals[i] \div g]]

SumProd(a, b) == SumSeq([i \in 1..Len(a) |-> a[i] * b[i]])

\* The regression slope num / dx in the place of the correlation, unclamped.
PearsonResult_Mut(n_effective, N, Dx, Dy, gx, gy) ==
  [r |-> IF Dx = 0 \/ Dy = 0 THEN 0 ELSE RoundDiv(10000 * N, Dx),
   n_effective |-> n_effective,
   degenerate |-> (Dx = 0 \/ Dy = 0),
   variance_x |-> [num |-> Dx, den |-> n_effective * (n_effective - 1), unit |-> gx],
   variance_y |-> [num |-> Dy, den |-> n_effective * (n_effective - 1), unit |-> gy]]

\* Lines 63-80: den = sqrt(dx) * sqrt(dy); !den is the degenerate return.
PearsonResult(n_effective, N, Dx, Dy, gx, gy) ==
  [r |-> IF Dx = 0 \/ Dy = 0 THEN 0 ELSE RoundedR(N, Dx * Dy),
   n_effective |-> n_effective,
   degenerate |-> (Dx = 0 \/ Dy = 0),
   variance_x |-> [num |-> Dx, den |-> n_effective * (n_effective - 1), unit |-> gx],
   variance_y |-> [num |-> Dy, den |-> n_effective * (n_effective - 1), unit |-> gy]]

\* Lines 48-61 over the normalised values px, py.
PearsonSums(n, px, py, gx, gy) ==
  PearsonResult(n,
                n * SumProd(px, py) - SumSeq(px) * SumSeq(py),
                n * SumProd(px, px) - SumSeq(px) * SumSeq(px),
                n * SumProd(py, py) - SumSeq(py) * SumSeq(py),
                gx, gy)

PearsonNorm(n, nx, ny) == PearsonSums(n, nx.v, ny.v, nx.g, ny.g)

\* Exact arithmetic: a series without spread has dx = 0 (dy = 0).
PearsonExact(pairs) ==
  PearsonNorm(Len(pairs),
              Normalised([i \in 1..Len(pairs) |-> pairs[i][1]]),
              Normalised([i \in 1..Len(pairs) |-> pairs[i][2]]))

(***************************************************************************)
(* Lines 45-57 in doubles.  When all kept values of a series are one value *)
(* c whose computed mean is not c, every deviation is the same nonzero     *)
(* residue: the sum of squares is positive though far below 0.0000005, so  *)
(* `!den` does not see the constant series.  Against a series with spread  *)
(* num / den is then of the order of 10^-15; for two such series it is +1  *)
(* or -1 by the signs of the two residues.  sx and sy are the residue      *)
(* signs of a constant x and y series, 0 for a series with spread or with  *)
(* an exact mean.                                                          *)
(***************************************************************************)
PearsonResidual(p, sx, sy, dx0, dy0) ==
  IF (dx0 /\ sx = 0) \/ (dy0 /\ sy = 0) \/ (sx = 0 /\ sy = 0) THEN p
  ELSE [p EXCEPT !.r = 10000 * sx * sy, !.degenerate = FALSE]

IsConstant(pairs, side) == \A i \in 1..Len(pairs) : pairs[i][side] = pairs[1][side]

ResidueOf(pairs, side, den) ==
  IF IsConstant(pairs, side) THEN MeanResidue(pairs[1][side], den, Len(pairs)) ELSE 0

\* ux and uy are the denominators of the x and y values.
PearsonOf(pairs, ux, uy) ==
  IF Len(pairs) < 3
  THEN [r |-> 0, n_effective |-> Len(pairs), degenerate |-> TRUE,
        variance_x |-> ZeroVar, variance_y |-> ZeroVar]
  ELSE PearsonResidual(PearsonExact(pairs),
                       ResidueOf(pairs, 1, ux), ResidueOf(pairs, 2, uy),
                       IsConstant(pairs, 1), IsConstant(pairs, 2))

\* A value n / den of a series; Num(n) is the integer n.
Dec(n, den) == [nan |-> FALSE, n |-> n, den |-> den]

UnitOf(series) ==
  IF \E i \in 1..Len(series) : "den" \in DOMAIN series[i]
  THEN (CHOOSE v \in {series[i] : i \in 1..Len(series)} : "den" \in DOMAIN v).den
  ELSE 1

pearsonStats(xs, ys) == PearsonOf(FinitePairs(xs, ys), UnitOf(xs), UnitOf(ys))

\* variance === 0
VarIsZero(v) == v.num = 0

(***************************************************************************)
(* computeLagStats                                                         *)
(***************************************************************************)
\* return { r: deg ? 0 : s.r, ..., degenerate: deg, n_pairs: ax.length }
LagEntry(s, n_pairs) ==
  [r |-> IF s.degenerate \/ s.n_effective < 3 THEN 0 ELSE s.r,
   n_effective |-> s.n_effective,
   degenerate |-> (s.degenerate \/ s.n_effective < 3),
   n_pairs |-> n_pairs]

\* The indices i of the loop that are kept: 0 <= i + lagDays < n.
LagIdx(n, lagDays) ==
  SelectSeq([i \in 1..n |-> i - 1],
            LAMBDA i : ~(i * ArgDen + lagDays < 0 \/ i * ArgDen + lagDays >= n * ArgDen))

\* ys[j]: undefined (not finite) when j is not a whole index.
AtIndex(ys, j) == IF j % ArgDen = 0 THEN ys[(j \div ArgDen) + 1] ELSE NaN

LagPairs(xs, ys, idx, lagDays) ==
  LagEntry(pearsonStats([k \in 1..Len(idx) |-> xs[idx[k] + 1]],
                        [k \in 1..Len(idx) |-> AtIndex(ys, idx[k] * ArgDen + lagDays)]),
           Len(idx))

\* lagDays is in units of 1 / ArgDen.
computeLagStats(xs, ys, lagDays) ==
  LagPairs(xs, ys, LagIdx(Min(Len(xs), Len(ys)), lagDays), lagDays)

(***************************************************************************)
(* blockBootstrapR.  Math.random() is a source u / RandomDen in [0, 1);    *)
(* one iteration draws `blocks` starts.  A count argument is carried in    *)
(* units of 1 / ArgDen (see Number below in buildAssociationBundle), the   *)
(* kept r values in ten-thousandths, degenerate_rate, median_r and iqr_r   *)
(* in ten-thousandths (toFixed(4)).                                        *)
(***************************************************************************)
BootBlocks(n, blockSize) == Max(1, n \div blockSize)
BootSpan(n, blockSize) == Max(1, n - blockSize + 1)

\* Math.floor(Math.random() * Math.max(1, n - blockSize + 1)) for random = u / RandomDen
BootStart(u, n, blockSize) == (u * BootSpan(n, blockSize)) \div RandomDen

\* The indices read by one block: start + k for k < blockSize, stopping at n.
BlockIdx(start, n, blockSize) ==
  [k \in 1..Max(0, Min(blockSize, n - start)) |-> start + k]

RECURSIVE SampleIdx(_, _, _)
SampleIdx(starts, n, blockSize) ==
  IF starts = <<>> THEN <<>>
  ELSE BlockIdx(Head(starts), n, blockSize) \o SampleIdx(Tail(starts), n, blockSize)

SampleAt(xs, ys, idx) ==
  pearsonStats([i \in 1..Len(idx) |-> xs[idx[i]]], [i \in 1..Len(idx) |-> ys[idx[i]]])

\* The statistics of the sample assembled from the blocks at `starts`.
BootSample(xs, ys, starts, blockSize) ==
  SampleAt(xs, ys, SampleIdx(starts, Min(Len(xs), Len(ys)), blockSize))

\* if (p.degenerate || p.n_effective < 3) { degenerateCount += 1; continue; }
Discarded(p) == p.degenerate \/ p.n_effective < 3

BootCount(acc, p) ==
  IF Discarded(p)
  THEN [rs |-> acc.rs, degenerateCount |-> acc.degenerateCount + 1]
  ELSE [rs |-> Append(acc.rs, p.r), degenerateCount |-> acc.degenerateCount]

\* One pass of the subsample loop: acc = [rs, degenerateCount].
BootIter(acc, xs, ys, starts, blockSize) ==
  BootCount(acc, BootSample(xs, ys, starts, blockSize))

NotInformative(subsamples, samples_used, degenerate_rate) ==
  [method |-> "block_bootstrap", subsamples |-> subsamples,
   samples_used |-> samples_used, degenerate_rate |-> degenerate_rate,
   median_r |-> 0, iqr_r |-> 0, stability |-> "low", is_informative |-> FALSE]

\* The informative test without its degenerate_rate half.
IsInformative_Mut(samples_used, degenerate_rate) == samples_used >= 20

IsInformative(samples_used, degenerate_rate) ==
  samples_used >= 20 /\ degenerate_rate <= 5000

\* The thresholds on the exact values of median and iqr, in millionths.
Stability_Exact(abs, iqr) ==
  IF abs >= 500000 /\ iqr <= 200000 THEN "high"
  ELSE IF abs >= 300000 /\ iqr <= 350000 THEN "medium"
  ELSE "low"

(***************************************************************************)
(* quantile, median and iqr as the doubles the code holds.  A kept r is    *)
(* the double nearest to k / 10000; a signed double is held here as        *)
(* [neg, mag] with mag the limbs of 2^8 times its magnitude (scaling by a  *)
(* power of two changes no rounding), so that the doubles next to 0.0001   *)
(* are within the 60 fractional bits.                                      *)
(***************************************************************************)
KeptDouble(k) == [neg |-> k < 0, mag |-> FloatDiv(256 * Abs(k), 10000)]

Negated(a) == [a EXCEPT !.neg = ~a.neg]

\* The double a + b of two signed doubles.
SignedSum(a, b) ==
  IF a.neg = b.neg THEN [neg |-> a.neg, mag |-> FloatAdd(a.mag, b.mag)]
  ELSE IF a.mag = b.mag THEN [neg |-> FALSE, mag |-> ZeroLimbs]
  ELSE IF LimbsGreater(a.mag, b.mag)
       THEN [neg |-> a.neg, mag |-> FloatSub(a.mag, b.mag)]
  ELSE [neg |-> b.neg, mag |-> FloatSub(b.mag, a.mag)]

\* rest * d for rest = rest4 / 4, one of 0, 0.25, 0.5, 0.75.
TimesRest(rest4, d) ==
  [neg |-> d.neg,
   mag |-> IF rest4 = 0 THEN ZeroLimbs
           ELSE IF rest4 = 1 THEN RoundedQuotient(d.mag, 4)
           ELSE IF rest4 = 2 THEN RoundedQuotient(d.mag, 2)
           ELSE RoundedQuotient(Normalize([i \in 1..5 |-> 3 * d.mag[i]]), 4)]

\* v0 + rest * (v1 - v0)
Interpolate(v0, v1, rest4) == SignedSum(v0, TimesRest(rest4, SignedSum(v1, Negated(v0))))

\* quantile(sorted, q4 / 4) of a sorted, non-empty array of kept r values.
quantileDouble(sorted, q4) ==
  Interpolate(KeptDouble(sorted[((Len(sorted) - 1) * q4) \div 4 + 1]),
              KeptDouble(sorted[Min(((Len(sorted) - 1) * q4) \div 4 + 1,
                                    Len(sorted) - 1) + 1]),
              ((Len(sorted) - 1) * q4) % 4)

\* Math.max(0, q3 - q1)
IqrDouble(q1, q3) ==
  IF SignedSum(q3, Negated(q1)).neg THEN ZeroLimbs ELSE SignedSum(q3, Negated(q1)).mag

AtLeast(a, b) == ~LimbsGreater(b, a)

\* abs and iqr are magnitudes times 2^8: 0.5, 0.2, 0.3 and 0.35 likewise.
Stability(abs, iqr) ==
  IF AtLeast(abs, <<128, 0, 0, 0, 0>>) /\ AtLeast(FloatDiv(512, 10), iqr) THEN "high"
  ELSE IF AtLeast(abs, FloatDiv(768, 10)) /\ AtLeast(FloatDiv(8960, 100), iqr) THEN "medium"
  ELSE "low"

\* Lines 164-183; median and iqr are the exact values in millionths.
Informative(subsamples, samples_used, degenerate_rate, median, iqr, stability) ==
  [method |-> "block_bootstrap", subsamples |-> subsamples,
   samples_used |-> samples_used, degenerate_rate |-> degenerate_rate,
   median_r |-> RoundDiv(clamp(median, -1000000, 1000000), 100),
   iqr_r |-> RoundDiv(iqr, 100),
   stability |-> stability, is_informative |-> TRUE]

BootReport(rs, subsamples, degenerate_rate) ==
  IF ~IsInformative(Len(rs), degenerate_rate)
  THEN NotInformative(subsamples, Len(rs), degenerate_rate)
  ELSE Informative(subsamples, Len(rs), degenerate_rate, quantile(rs, 50),
                   Max(0, quantile(rs, 75) - quantile(rs, 25)),
                   Stability(quantileDouble(rs, 2).mag,
                             IqrDouble(quantileDouble(rs, 1), quantileDouble(rs, 3))))

\* Lines 144-183: what is reported once the loop has ended.
BootResult(acc, subsamples) ==
  BootReport(SortAsc(acc.rs), subsamples,
             RoundDiv(10000 * acc.degenerateCount * ArgDen, subsamples))

\* The k-th value (k = 0, 1, ...) of the random source started from seed.
MathRandom(seed, k) == (seed.b + seed.a * k) % RandomDen

\* The passes s = 0, 1, ... with s < subsamples.
Iterations(subsamples) == (subsamples + ArgDen - 1) \div ArgDen

Kept(kept, degenerateCount) ==
  [rs |-> [i \in 1..Len(kept) |-> kept[i].r], degenerateCount |-> degenerateCount]

Tally(ps) ==
  Kept(SelectSeq(ps, LAMBDA p : ~Discarded(p)), Len(SelectSeq(ps, Discarded)))

PassStarts(s, n, blocks, blockSize, seed) ==
  [b \in 1..blocks |-> BootStart(MathRandom(seed, s * blocks + b - 1), n, blockSize)]

BootPasses(xs, ys, n, subsamples, blockSize, seed) ==
  [s \in 1..Iterations(subsamples) |->
     BootSample(xs, ys, PassStarts(s - 1, n, BootBlocks(n, blockSize), blockSize, seed),
                blockSize)]

\* The whole subsample loop under one random source; the passes do not
\* depend on one another, pass s consumes the values s * blocks onwards.
BootLoop(xs, ys, subsamples, blockSize, seed) ==
  Tally(BootPasses(xs, ys, Min(Len(xs), Len(ys)), subsamples, blockSize, seed))

blockBootstrapR(xs, ys, subsamples, blockSize, seed) ==
  LET n == Min(Len(xs), Len(ys))
  IN IF n < 3
     THEN [method |-> "block_bootstrap", subsamples |-> subsamples,
           samples_used |-> 0, degenerate_rate |-> 10000,
           median_r |-> 0, iqr_r |-> 0, stability |-> "low",
           is_informative |-> FALSE]
     ELSE BootResult(BootLoop(xs, ys, subsamples, blockSize, seed), subsamples)

(***************************************************************************)
(* buildAssociationBundle.  A numeric argument arrives as null, as a       *)
(* string that Number() reads as q / ArgDen, or as any other string.       *)
(***************************************************************************)
ArgNull == [kind |-> "null", q |-> 0]
ArgNum(q) == [kind |-> "num", q |-> q]
ArgText == [kind |-> "text", q |-> 0]

\* Number(arg), in units of 1 / ArgDen
NumberArg(a) == IF a.kind = "text" THEN NaN ELSE Num(a.q)

\* x || d
OrElse(x, d) == IF Falsy(x) THEN d ELSE x.n

\* The pairing that reads the risk series from its end.
buildXYSeries_Mut(driftDaily, riskDaily, metricX, metricY) ==
  LET n == Min(Len(driftDaily), Len(riskDaily))
  IN [i \in 1..n |->
       LET d == driftDaily[i]
           r == riskDaily[n + 1 - i]
       IN [t |-> d.t,
           x |-> IF metricX = "drift_unique_modules" THEN d.drift_unique_modules
                 ELSE d.drift_events,
           y |-> IF metricY = "risk_events" THEN r.risk_events
                 ELSE IF metricY = "risk_score_p95" THEN r.risk_score_p95
                 ELSE r.risk_score_avg]]

buildXYSeries(driftDaily, riskDaily, metricX, metricY) ==
  LET n == Min(Len(driftDaily), Len(riskDaily))
  IN [i \in 1..n |->
       LET d == driftDaily[i]
           r == riskDaily[i]
       IN [t |-> d.t,
           x |-> IF metricX = "drift_unique_modules" THEN d.drift_unique_modules
                 ELSE d.drift_events,
           y |-> IF metricY = "risk_events" THEN r.risk_events
                 ELSE IF metricY = "risk_score_p95" THEN r.risk_score_p95
                 ELSE r.risk_score_avg]]

\* lags == null ? clamp(days, 3, 14) : clamp(Number(lags) || 0, 0, 14), in 1 / ArgDen
MaxLagOf(days, lags) ==
  IF lags.kind = "null" THEN clamp(days, 3, 14) * ArgDen
  ELSE clamp(OrElse(NumberArg(lags), 0), 0, 14 * ArgDen)

\* clamp(Number(subsamples) || 100, 20, 500), in 1 / ArgDen
SubsamplesOf(subsamples) ==
  clamp(OrElse(NumberArg(subsamples), 100 * ArgDen), 20 * ArgDen, 500 * ArgDen)

LagResult(lag, st, nTotal) ==
  [lag_days |-> lag, r |-> st.r, n |-> nTotal, n_pairs |-> st.n_pairs,
   n_effective |-> st.n_effective, degenerate |-> st.degenerate]

\* for (let lag = -maxLag; lag <= maxLag; lag++) lagResults.push(...)
RECURSIVE LagSweep(_, _, _, _, _)
LagSweep(xs, ys, lag, maxLag, nTotal) ==
  IF ~(lag <= maxLag) THEN <<>>
  ELSE <<LagResult(lag, computeLagStats(xs, ys, lag), nTotal)>>
       \o LagSweep(xs, ys, lag + ArgDen, maxLag, nTotal)

CountIf(series, P(_)) == Len(SelectSeq(series, P))

Notes(nonzero_x_days, nonzero_y_days, nonzero_overlap_days, p) ==
  (IF nonzero_x_days < 3 THEN <<"sparse_x">> ELSE <<>>)
  \o (IF nonzero_y_days < 3 THEN <<"sparse_y">> ELSE <<>>)
  \o (IF nonzero_overlap_days < 3 THEN <<"low_overlap">> ELSE <<>>)
  \o (IF p.degenerate /\ VarIsZero(p.variance_y) THEN <<"degenerate_y">> ELSE <<>>)
  \o (IF p.degenerate /\ VarIsZero(p.variance_x) THEN <<"degenerate_x">> ELSE <<>>)

Diagnostics(nTotal, nonzero_x_days, nonzero_y_days, nonzero_overlap_days, p) ==
  [window_days |-> nTotal,
   nonzero_x_days |-> nonzero_x_days,
   nonzero_y_days |-> nonzero_y_days,
   nonzero_overlap_days |-> nonzero_overlap_days,
   missing_policy |-> "zero_fill",
   notes |-> Notes(nonzero_x_days, nonzero_y_days, nonzero_overlap_days, p)]

PearsonEntry(p, nTotal) ==
  [r |-> IF p.degenerate THEN 0 ELSE p.r,
   n |-> nTotal,
   n_effective |-> p.n_effective,
   degenerate |-> p.degenerate,
   variance_x |-> p.variance_x,
   variance_y |-> p.variance_y]

\* The bundle with a value of the resampling written into its diagnostics.
BundleOf_Mut(args, series, xs, ys, p, maxLag, ss, nowMs, seed) ==
  [kind |-> "association_bundle",
   v |-> 2,
   generated_at |-> toISOString(nowMs),
   window |-> args.window,
   bucket |-> args.bucket,
   metric_x |-> args.metric_x,
   metric_y |-> args.metric_y,
   series |-> series,
   diagnostics |->
     Diagnostics(blockBootstrapR(xs, ys, ss, 2, seed).samples_used,
                 CountIf(series, LAMBDA e : e.x # 0),
                 CountIf(series, LAMBDA e : e.y # 0),
                 CountIf(series, LAMBDA e : e.x # 0 /\ e.y # 0),
                 p),
   results |->
     [pearson |-> PearsonEntry(p, Len(series)),
      lags |-> LagSweep(xs, ys, -maxLag, maxLag, Len(series)),
      robustness |-> blockBootstrapR(xs, ys, ss, 2, seed)]]

\* Lines 262-325, from the series on.
BundleOf(args, series, xs, ys, p, maxLag, ss, nowMs, seed) ==
  [kind |-> "association_bundle",
   v |-> 2,
   generated_at |-> toISOString(nowMs),
   window |-> args.window,
   bucket |-> args.bucket,
   metric_x |-> args.metric_x,
   metric_y |-> args.metric_y,
   series |-> series,
   diagnostics |->
     Diagnostics(Len(series),
                 CountIf(series, LAMBDA e : e.x # 0),
                 CountIf(series, LAMBDA e : e.y # 0),
                 CountIf(series, LAMBDA e : e.x # 0 /\ e.y # 0),
                 p),
   results |->
     [pearson |-> PearsonEntry(p, Len(series)),
      lags |-> LagSweep(xs, ys, -maxLag, maxLag, Len(series)),
      robustness |-> blockBootstrapR(xs, ys, ss, 2, seed)]]

BundleXY(args, series, xs, ys, maxLag, ss, nowMs, seed) ==
  BundleOf(args, series, xs, ys, pearsonStats(xs, ys), maxLag, ss, nowMs, seed)

\* xs and ys: the counts are integers, the scores are numbers of two decimals.
BundleSeries(args, series, maxLag, ss, nowMs, seed) ==
  BundleXY(args, series,
           [i \in 1..Len(series) |-> Num(series[i].x)],
           [i \in 1..Len(series) |->
              IF args.metric_y = "risk_events" THEN Num(series[i].y)
              ELSE Dec(series[i].y, 100)],
           maxLag, ss, nowMs, seed)

BundleDaily(args, driftDaily, riskDaily, nowMs, seed) ==
  IF driftDaily.threw \/ riskDaily.threw THEN Throw
  ELSE Ret(BundleSeries(args,
             buildXYSeries(driftDaily.val, riskDaily.val, args.metric_x, args.metric_y),
             MaxLagOf(windowToDays(args.window), args.lags),
             SubsamplesOf(args.subsamples), nowMs, seed))

\* args = [window, bucket, metric_x, metric_y, lags, subsamples]
buildAssociationBundle(args, eventsFile, auditFile, nowMs, seed) ==
  BundleDaily(args,
              buildDriftDailySeries(eventsFile, args.window, nowMs),
              buildRiskDailySeries(auditFile, args.window, nowMs),
              nowMs, seed)

(***************************************************************************)
(* The environment: writers append lines to the two logs, the clock moves. *)
(* MaxLines bounds the lines the two logs hold together.  out is what the  *)
(* last operation returned, so a change of the environment clears it.      *)
(***************************************************************************)
NoOut == [op |-> "none"]
NoInp == [xs |-> <<>>, ys |-> <<>>]

InitEnv ==
  /\ events = Missing
  /\ audit = Missing
  /\ now = Now0
  /\ inp = NoInp
  /\ out = NoOut

Room == Len(events.lines) + Len(audit.lines) < MaxLines

\* A writer appends one line of the set L to the drift event log.
AppendEvent(L) ==
  /\ events.st # "dir"
  /\ Room
  /\ \E l \in L : events' = File(Append(events.lines, l))
  /\ out' = NoOut
  /\ UNCHANGED <<audit, now, inp>>

\* A writer appends one line of the set L to the audit log.
AppendAudit(L) ==
  /\ audit.st # "dir"
  /\ Room
  /\ \E l \in L : audit' = File(Append(audit.lines, l))
  /\ out' = NoOut
  /\ UNCHANGED <<events, now, inp>>

\* The path of a log is occupied by something that cannot be read.
BreakEvents ==
  /\ events = Missing
  /\ events' = Unreadable
  /\ out' = NoOut
  /\ UNCHANGED <<audit, now, inp>>

BreakAudit ==
  /\ audit = Missing
  /\ audit' = Unreadable
  /\ out' = NoOut
  /\ UNCHANGED <<events, now, inp>>

Tick ==
  /\ \E t \in NowSet : t > now /\ now' = t
  /\ out' = NoOut
  /\ UNCHANGED <<events, audit, inp>>

(***************************************************************************)
(* SpecSeries: the two daily series builders over the logs.                *)
(***************************************************************************)
Midnight0 == UtcMidnight(Now0)

SeriesEventLines ==
  { BadLine,
    EventLine("audit_event", 2, IsoStr(Now0), Text("alpha")),
    DriftEvent(Text("not a date"), Text("alpha")),
    DriftEvent(BadObject, Text("alpha")),
    DriftEvent(IsoStr(Now0), Text("alpha")),
    DriftEvent(IsoStr(Now0 + 1), Text("beta")),
    DriftEvent(IsoStr(Now0), Undefined),
    DriftEvent(IsoStr(Now0), Text("")),
    DriftEvent(IsoStr(Midnight0 - 6 * DAY - 1), Text("alpha")),
    DriftEvent(IsoStr(Midnight0 + DAY), Text("beta")) }

Scored(ts, score) ==
  AuditRec(ts, Undefined, Undefined, Undefined, Undefined, Undefined, Undefined, score)

SeriesAuditLines ==
  { BadAuditLine,
    Scored(IsoStr(Now0), Number(40)),
    Scored(IsoStr(Now0 + 1), Number(75)),
    Scored(IsoStr(Now0), BadObject),
    Scored(IsoStr(Midnight0 - 6 * DAY - 1), Number(10)),
    Scored(Text("not a date"), Number(20)),
    AuditRec(Undefined, Undefined, Undefined, Undefined, EpochSec(Now0 - DAY),
             Number(33), Undefined, Undefined) }

DriftDaily ==
  /\ \E w \in Windows :
       out' = [op |-> "driftDaily", window |-> w, now |-> now,
               res |-> buildDriftDailySeries(events, w, now)]
  /\ UNCHANGED <<events, audit, now, inp>>

RiskDaily ==
  /\ \E w \in Windows :
       out' = [op |-> "riskDaily", window |-> w, now |-> now,
               res |-> buildRiskDailySeries(audit, w, now)]
  /\ UNCHANGED <<events, audit, now, inp>>

NextSeries ==
  \/ AppendEvent(SeriesEventLines)
  \/ AppendAudit(SeriesAuditLines)
  \/ BreakEvents
  \/ BreakAudit
  \/ Tick
  \/ DriftDaily
  \/ RiskDaily

SpecSeries == InitEnv /\ [][NextSeries]_vars

(***************************************************************************)
(* C1: for every window value, log content and now, each daily series      *)
(* builder that returns, returns exactly N entries (N = 7, 14 or 30; 7 for *)
(* an unrecognized window), one per UTC calendar day from today's UTC      *)
(* midnight - (N-1) days to today's UTC midnight, strictly ascending and   *)
(* one day apart.  A builder fails to return only when its log cannot be   *)
(* read or, for the risk series, a record of the window carries a score    *)
(* that cannot be converted to a number.                                   *)
(***************************************************************************)
IsDaily == out.op \in {"driftDaily", "riskDaily"}

C1_N == IF out.window = "14d" THEN 14 ELSE IF out.window = "30d" THEN 30 ELSE 7

MaxPairs == 4
MaxSeed == 1
RandomSeeds == {[a |-> k * 3, b |-> k] : k \in 0..MaxSeed}

AssocEventLines ==
  { DriftEvent(IsoStr(Now0), Text("alpha")),
    DriftEvent(IsoStr(Now0 - DAY), Text("beta")),
    BadLine }

AssocAuditLines ==
  { Scored(IsoStr(Now0), Number(6)),
    Scored(IsoStr(Now0 - DAY), Number(12)),
    Scored(IsoStr(Now0), BadObject) }

\* parseAssocArgs of an empty argument list
DefaultArgs ==
  [window |-> "7d", bucket |-> "day", metric_x |-> "drift_density",
   metric_y |-> "risk_score_avg", lags |-> ArgNull, subsamples |-> ArgNum(100 * ArgDen)]

QuickArgs == [DefaultArgs EXCEPT !.subsamples = ArgNum(20 * ArgDen)]

LagsValues ==
  { ArgNum(0), ArgNum(3 * ArgDen), ArgNum(-2 * ArgDen), ArgNum(100 * ArgDen),
    ArgText, ArgNum(2 * ArgDen + 1) }

AssocArgs ==
  { DefaultArgs, QuickArgs,
    [QuickArgs EXCEPT !.window = "14d"],
    [QuickArgs EXCEPT !.window = "30d", !.metric_x = "drift_unique_modules",
                      !.metric_y = "risk_events"],
    [QuickArgs EXCEPT !.window = "1y", !.metric_y = "risk_score_p95",
                      !.subsamples = ArgText] }
  \cup { [QuickArgs EXCEPT !.lags = l] : l \in LagsValues }

\* The operations of this specification start from a cleared out: what was
\* returned is held until the environment moves on.
Correlate ==
  /\ inp = NoInp
  /\ out = NoOut
  /\ \E args \in AssocArgs, seed \in RandomSeeds :
       out' = [op |-> "correlate", args |-> args, now |-> now,
               res |-> buildAssociationBundle(args, events, audit, now, seed)]
  /\ UNCHANGED <<events, audit, now, inp>>

PairValues ==
  { <<Num(0), Num(0)>>, <<Num(1), Num(1)>>, <<Num(3), Num(1)>>,
    <<Num(1), Num(3)>>, <<NaN, Num(1)>> }

OnArrays == events = Missing /\ audit = Missing /\ now = Now0

PushPair ==
  /\ OnArrays
  /\ Len(inp.xs) < MaxPairs
  /\ Len(inp.ys) < MaxPairs
  /\ \E p \in PairValues :
       inp' = [xs |-> Append(inp.xs, p[1]), ys |-> Append(inp.ys, p[2])]
  /\ out' = NoOut
  /\ UNCHANGED <<events, audit, now>>

\* One array grows alone: the two arrays need not have the same length.
PushX ==
  /\ OnArrays
  /\ Len(inp.xs) = Len(inp.ys)
  /\ Len(inp.xs) < MaxPairs
  /\ inp' = [xs |-> Append(inp.xs, Num(1)), ys |-> inp.ys]
  /\ out' = NoOut
  /\ UNCHANGED <<events, audit, now>>

Pearson ==
  /\ inp # NoInp
  /\ out = NoOut
  /\ out' = [op |-> "pearsonStats", res |-> pearsonStats(inp.xs, inp.ys)]
  /\ UNCHANGED <<events, audit, now, inp>>

LagStats ==
  /\ inp # NoInp
  /\ out = NoOut
  /\ \E lag \in (-MaxPairs * ArgDen)..(MaxPairs * ArgDen) :
       out' = [op |-> "computeLagStats", lag |-> lag,
               res |-> computeLagStats(inp.xs, inp.ys, lag)]
  /\ UNCHANGED <<events, audit, now, inp>>

NextAssoc ==
  \/ inp = NoInp /\ AppendEvent(AssocEventLines)
  \/ inp = NoInp /\ AppendAudit(AssocAuditLines)
  \/ inp = NoInp /\ BreakAudit
  \/ inp = NoInp /\ Tick
  \/ Correlate
  \/ PushPair
  \/ PushX
  \/ Pearson
  \/ LagStats

SpecAssoc == InitEnv /\ [][NextAssoc]_vars

(***************************************************************************)
(* C2: in every association bundle that buildAssociationBundle returns,    *)
(* results.pearson.r and the r of every lag entry lie in [-1, 1], and an   *)
(* entry with degenerate = true has r = 0; the same holds for what         *)
(* pearsonStats and computeLagStats return on any pair of arrays,          *)
(* including arrays with non-finite values or fewer than 3 elements.       *)
(* r is held in ten-thousandths.                                           *)
(***************************************************************************)
RInRange(e) == e.r >= -10000 /\ e.r <= 10000 /\ (e.degenerate => e.r = 0)

IsBundle == out.op = "correlate" /\ ~out.res.threw

C3_MaxLag == MaxLagOf(windowToDays(out.args.window), out.args.lags)

C3_LagSweepShape ==
  IsBundle =>
    LET lags == out.res.val.results.lags IN
    /\ C3_MaxLag >= 0 /\ C3_MaxLag <= 14 * ArgDen
    /\ Len(lags) * ArgDen = 2 * C3_MaxLag + ArgDen
    /\ lags[1].lag_days = -C3_MaxLag
    /\ lags[Len(lags)].lag_days = C3_MaxLag
    /\ \A i \in 1..(Len(lags) - 1) : lags[i].lag_days < lags[i + 1].lag_days
    /\ \E i \in 1..Len(lags) : lags[i].lag_days = 0

(***************************************************************************)
(* SpecBootstrap: blockBootstrapR pass by pass.  Every pass draws its      *)
(* starts freely, which covers every outcome of Math.random().  The kept r *)
(* values are held ascending: the function sorts them before it reads      *)
(* them.                                                                   *)
(***************************************************************************)
Series(q) == [i \in 1..Len(q) |-> Num(q[i])]

BootJob(xs, ys, subsamples) ==
  [xs |-> Series(xs), ys |-> Series(ys), subsamples |-> subsamples,
   s |-> 0, rs |-> <<>>, degenerateCount |-> 0, idx |-> <<>>]

BootJobs ==
  { BootJob(<<0, 1>>, <<0, 1>>, 20 * ArgDen),
    BootJob(<<0, 1, 0>>, <<0, 1, 1>>, 20 * ArgDen),
    BootJob(<<0, 0, 1, 1, 1>>, <<0, 0, 1, 1, 1>>, 20 * ArgDen),
    BootJob(<<0, 1, 1, 0>>, <<0, 1, 0, 0>>, 20 * ArgDen) }
  \cup { BootJob(<<0, 0, 1, 1>>, <<0, 0, 1, 1>>, ss) :
           ss \in {20 * ArgDen, 20 * ArgDen + 1, 41 * ArgDen} }

InitBootstrap ==
  /\ events = Missing
  /\ audit = Missing
  /\ now = Now0
  /\ inp \in BootJobs
  /\ out = NoOut

BootN == Min(Len(inp.xs), Len(inp.ys))

\* if (n < 3) return { ..., samples_used: 0, degenerate_rate: 1, ... }
BootShort ==
  /\ out = NoOut
  /\ BootN < 3
  /\ out' = [op |-> "bootstrap",
             res |-> blockBootstrapR(inp.xs, inp.ys, inp.subsamples, 2, [a |-> 0, b |-> 0])]
  /\ UNCHANGED <<events, audit, now, inp>>

\* idx: the positions (from 1) that the pass read, in the order bx and by
\* were filled.
BootPassed(acc, idx) ==
  [inp EXCEPT !.s = inp.s + 1, !.rs = SortAsc(acc.rs),
              !.degenerateCount = acc.degenerateCount, !.idx = idx]

\* One pass of the loop `for (let s = 0; s < subsamples; s++)`; the positions
\* read are recorded when traced.
BootStep(traced) ==
  /\ out = NoOut
  /\ BootN >= 3
  /\ inp.s * ArgDen < inp.subsamples
  /\ \E starts \in [1..BootBlocks(BootN, 2) -> 0..(BootSpan(BootN, 2) - 1)] :
       inp' = BootPassed(BootIter([rs |-> inp.rs, degenerateCount |-> inp.degenerateCount],
                                  inp.xs, inp.ys, starts, 2),
                         IF traced THEN SampleIdx(starts, BootN, 2) ELSE <<>>)
  /\ UNCHANGED <<events, audit, now, out>>

BootPass == BootStep(TRUE)

\* The loop has ended: lines 144-183.
BootFinish ==
  /\ out = NoOut
  /\ BootN >= 3
  /\ ~(inp.s * ArgDen < inp.subsamples)
  /\ out' = [op |-> "bootstrap",
             res |-> BootResult([rs |-> inp.rs, degenerateCount |-> inp.degenerateCount],
                                inp.subsamples)]
  /\ UNCHANGED <<events, audit, now, inp>>

NextBootstrap ==
  \/ BootShort
  \/ BootPass
  \/ BootFinish

SpecBootstrap == InitBootstrap /\ [][NextBootstrap]_vars

(***************************************************************************)
(* C4: the block-bootstrap result is informative exactly when              *)
(* samples_used >= 20 and degenerate_rate <= 0.5, where degenerate_rate is *)
(* the number of degenerate bootstrap samples over subsamples; and         *)
(* whenever is_informative = false (a series shorter than 3 included) the  *)
(* result reports median_r = 0, iqr_r = 0 and stability = "low".           *)
(* degenerate_rate is in ten-thousandths, subsamples in units of           *)
(* 1 / ArgDen.                                                             *)
(***************************************************************************)
C4_Informative ==
  out.op = "bootstrap" =>
    LET res == out.res IN
    /\ BootN >= 3 =>
         /\ res.samples_used = Len(inp.rs)
         /\ res.degenerate_rate =
              RoundDiv(10000 * inp.degenerateCount * ArgDen, inp.subsamples)
         /\ res.is_informative <=>
              (res.samples_used >= 20
               /\ 2 * inp.degenerateCount * ArgDen <= inp.subsamples)
    /\ res.is_informative <=> (res.samples_used >= 20 /\ res.degenerate_rate <= 5000)
    /\ ~res.is_informative =>
         res.median_r = 0 /\ res.iqr_r = 0 /\ res.stability = "low"

\* Twenty samples were kept, yet more than half of the passes were degenerate.
C4_Witness ==
  /\ out.op = "bootstrap"
  /\ out.res.samples_used >= 20
  /\ ~out.res.is_informative
  /\ out.res.degenerate_rate > 5000

(***************************************************************************)
(* computeDriftDominance (and its copy computeDominanceFallback of         *)
(* runAudit).  A module record is [module, drift_units, boundary]; the     *)
(* boundary "" stands for no boundary.  A share is the exact fraction      *)
(* [num, den].                                                             *)
(***************************************************************************)
Share(contribution, total) ==
  IF total > 0 THEN [num |-> contribution, den |-> total] ELSE [num |-> 0, den |-> 1]

\* The comparator without its tie-break on the module name.
DominanceBefore_Mut(a, b) == a.drift_units > b.drift_units

\* The sort comparator: contribution descending, then module name ascending.
DominanceBefore(a, b) ==
  \/ a.drift_units > b.drift_units
  \/ a.drift_units = b.drift_units /\ localeCompare(a.module, b.module) < 0

\* sorted.slice(0, topN).map(...)
TopModules(sorted, total, topN) ==
  [i \in 1..Min(topN, Len(sorted)) |->
     [module |-> sorted[i].module,
      contribution |-> sorted[i].drift_units,
      share |-> Share(sorted[i].drift_units, total),
      rank |-> i]]

\* top_modules.slice(0, 3).reduce((s, m) => s + m.share, 0)
Top3Share(top_modules, total) ==
  Share(SumSeq([i \in 1..Min(3, Len(top_modules)) |-> top_modules[i].contribution]), total)

BoundaryBefore(a, b) ==
  \/ a.contribution > b.contribution
  \/ a.contribution = b.contribution /\ localeCompare(a.boundary, b.boundary) < 0

\* boundaryMap, in the order the boundaries are first met in `sorted`.
RECURSIVE BoundaryMap(_, _)
BoundaryMap(acc, sorted) ==
  IF sorted = <<>> THEN acc
  ELSE LET b == Head(sorted).boundary IN
       IF b = "" THEN BoundaryMap(acc, Tail(sorted))
       ELSE IF \E i \in 1..Len(acc) : acc[i].boundary = b
            THEN BoundaryMap(
                   [i \in 1..Len(acc) |->
                      IF acc[i].boundary = b
                      THEN [boundary |-> b,
                            contribution |-> acc[i].contribution + Head(sorted).drift_units]
                      ELSE acc[i]],
                   Tail(sorted))
            ELSE BoundaryMap(
                   Append(acc, [boundary |-> b, contribution |-> Head(sorted).drift_units]),
                   Tail(sorted))

Boundaries(bmap, total) ==
  SortSeq([i \in 1..Len(bmap) |->
             [boundary |-> bmap[i].boundary,
              contribution |-> bmap[i].contribution,
              share |-> Share(bmap[i].contribution, total)]],
          BoundaryBefore)

DominanceOf(sorted, total, top_modules, boundaries, topN) ==
  [metric |-> "drift_units",
   top_n |-> topN,
   total_contribution |-> total,
   top_modules |-> top_modules,
   dominance_ratio |-> IF Len(top_modules) > 0 THEN top_modules[1].share ELSE Share(0, 0),
   top3_share |-> Top3Share(top_modules, total),
   cross_boundary |->
     [is_cross_boundary |-> Len(boundaries) > 1,
      boundaries |-> boundaries,
      note |-> "signal-only"]]

DominanceSorted(sorted, total, topN) ==
  DominanceOf(sorted, total, TopModules(sorted, total, topN),
              Boundaries(BoundaryMap(<<>>, sorted), total), topN)

TotalOf(sorted) == SumSeq([i \in 1..Len(sorted) |-> sorted[i].drift_units])

computeDriftDominance(modules, topN) ==
  IF Len(modules) = 0
  THEN [metric |-> "drift_units",
        top_n |-> topN,
        total_contribution |-> 0,
        top_modules |-> <<>>,
        dominance_ratio |-> Share(0, 0),
        top3_share |-> Share(0, 0),
        cross_boundary |->
          [is_cross_boundary |-> FALSE, boundaries |-> <<>>, note |-> "signal-only"]]
  ELSE DominanceSorted(SortSeq(modules, DominanceBefore),
                       TotalOf(modules), topN)

(***************************************************************************)
(* SpecDominance: computeDriftDominance applied to module lists of up to   *)
(* MaxModules modules, given in every order.  A profile fixes the          *)
(* contribution and the boundary of each module name.                      *)
(***************************************************************************)
MaxModules == 6
TopN == 5

DomNames == <<"alpha", "beta", "delta", "eta", "gamma", "kappa", "zeta">>
DomPool == {DomNames[i] : i \in 1..Min(MaxModules, Len(DomNames))}

Profiles ==
  { [n \in DomPool |-> [drift_units |-> 1, boundary |-> ""]],
    [n \in DomPool |-> [drift_units |-> 0, boundary |-> ""]],
    [n \in DomPool |->
       [drift_units |-> IF n \in {"alpha", "delta", "zeta"} THEN 2
                        ELSE IF n = "gamma" THEN 3 ELSE 1,
        boundary |-> IF n \in {"alpha", "eta"} THEN "core"
                     ELSE IF n \in {"beta", "gamma"} THEN "edge" ELSE ""]] }

InitDominance ==
  /\ events = Missing
  /\ audit = Missing
  /\ now = Now0
  /\ inp \in {[modules |-> <<>>, profile |-> p] : p \in Profiles}
  /\ out = NoOut

PushModule ==
  /\ Len(inp.modules) < MaxModules
  /\ \E n \in DomPool :
       /\ \A i \in 1..Len(inp.modules) : inp.modules[i].module # n
       /\ inp' = [inp EXCEPT !.modules =
                    Append(@, [module |-> n,
                               drift_units |-> inp.profile[n].drift_units,
                               boundary |-> inp.profile[n].boundary])]
  /\ out' = NoOut
  /\ UNCHANGED <<events, audit, now>>

Dominance ==
  /\ out = NoOut
  /\ out' = [op |-> "dominance", res |-> computeDriftDominance(inp.modules, TopN)]
  /\ UNCHANGED <<events, audit, now, inp>>

NextDominance ==
  \/ PushModule
  \/ Dominance

SpecDominance == InitDominance /\ [][NextDominance]_vars

(***************************************************************************)
(* C5: in the dominance summary the share values over all module           *)
(* contributions reported sum to 1.0 whenever total_contribution > 0, for  *)
(* any number of distinct modules, and every share is 0 when               *)
(* total_contribution = 0 or the module set is empty.                      *)
(***************************************************************************)
IsDominance == out.op = "dominance"

SumOfShares(top_modules) ==
  SumSeq([i \in 1..Len(top_modules) |-> top_modules[i].share.num])

C5_SharesSumToOne ==
  IsDominance =>
    LET d == out.res IN
    /\ d.total_contribution > 0 =>
         /\ \A i \in 1..Len(d.top_modules) :
              d.top_modules[i].share.den = d.total_contribution
         /\ SumOfShares(d.top_modules) = d.total_contribution
    /\ d.total_contribution = 0 =>
         \A i \in 1..Len(d.top_modules) : d.top_modules[i].share.num = 0

(***************************************************************************)
(* C6: computeDriftDominance ranks modules by contribution descending,     *)
(* ties broken by ascending module name; top_modules is the first          *)
(* min(topN, number of modules) entries of that order with rank 1, 2, ..., *)
(* k; dominance_ratio is the share of the rank-1 entry (0 without          *)
(* modules); top3_share is the sum of the shares of ranks 1 to 3; the      *)
(* result is the same for every input order of the same module set.        *)
(***************************************************************************)
\* The module set of the input in the order of the names.
ByName(modules) ==
  SortSeq(modules, LAMBDA a, b : localeCompare(a.module, b.module) < 0)

RanksBefore(a, b) ==
  \/ a.contribution > b.contribution
  \/ a.contribution = b.contribution /\ ModuleRank(a.module) < ModuleRank(b.module)

C6_Ranking ==
  IsDominance =>
    LET d == out.res
        top == d.top_modules
        k == Len(top)
        total == SumSeq([i \in 1..Len(inp.modules) |-> inp.modules[i].drift_units])
    IN
    /\ k = Min(TopN, Len(inp.modules))
    /\ d.total_contribution = total
    /\ \A i \in 1..k :
         /\ top[i].rank = i
         /\ \E j \in 1..Len(inp.modules) :
              /\ inp.modules[j].module = top[i].module
              /\ inp.modules[j].drift_units = top[i].contribution
         /\ top[i].share = Share(top[i].contribution, total)
    /\ \A i \in 1..(k - 1) : RanksBefore(top[i], top[i + 1])
    /\ \A j \in 1..Len(inp.modules) :
         (\A i \in 1..k : top[i].module # inp.modules[j].module) =>
           RanksBefore(top[k], [module |-> inp.modules[j].module,
                                contribution |-> inp.modules[j].drift_units])
    /\ d.dominance_ratio = IF k > 0 THEN top[1].share ELSE Share(0, 0)
    /\ d.top3_share =
         Share(SumSeq([i \in 1..Min(3, k) |-> top[i].contribution]), total)
    /\ d = computeDriftDominance(ByName(inp.modules), TopN)

\* More modules than topN, with ties, given in an order that is neither the
\* order of the names nor the ranking.
C6_Witness ==
  /\ IsDominance
  /\ Len(inp.modules) > TopN
  /\ inp.modules # ByName(inp.modules)
  /\ \E i \in 1..(Len(out.res.top_modules) - 1) :
       out.res.top_modules[i].contribution = out.res.top_modules[i + 1].contribution
  /\ \E i \in 1..(Len(out.res.top_modules) - 1) :
       out.res.top_modules[i].contribution > out.res.top_modules[i + 1].contribution
  /\ inp.modules[1].module # out.res.top_modules[1].module

(***************************************************************************)
(* analyzer.mjs: analyzeDrift over the drift event log.  The module field  *)
(* of a line is a string or absent.  density and slope are in hundredths   *)
(* (toFixed(2)).                                                           *)
(***************************************************************************)
\* The parser without its filter on kind and v.
parseJsonlSafe_Mut(f) ==
  IF f.st = "missing" THEN Ret(<<>>)
  ELSE IF ReadThrows(f) THEN Throw
  ELSE LET Keep(l) == l.json
       IN Ret(SelectSeq(f.lines, Keep))

\* analyzer.mjs and timeline.mjs: keeps the drift events of schema 2.
parseJsonlSafe(f) ==
  IF f.st = "missing" THEN Ret(<<>>)
  ELSE IF ReadThrows(f) THEN Throw
  ELSE LET Keep(l) == l.json /\ l.kind = "drift_event" /\ l.v = 2
       IN Ret(SelectSeq(f.lines, Keep))

\* Date.parse(e.ts) throws for some parsed event.
ParseThrows(all) == \E i \in 1..Len(all) : ToPrimitiveThrows(all[i].ts)

\* The current window without its first instant.
CurrentOf_Mut(all, currentStart) ==
  LET In(e) == ~Falsy(DateParse(e.ts)) /\ DateParse(e.ts).n > currentStart
  IN SelectSeq(all, In)

\* The events pushed to `current` and to `previous`.
CurrentOf(all, currentStart) ==
  LET In(e) == ~Falsy(DateParse(e.ts)) /\ DateParse(e.ts).n >= currentStart
  IN SelectSeq(all, In)

PreviousOf(all, currentStart, prevStart) ==
  LET In(e) == /\ ~Falsy(DateParse(e.ts))
               /\ DateParse(e.ts).n < currentStart
               /\ DateParse(e.ts).n >= prevStart
  IN SelectSeq(all, In)

\* new Set(list.map((e) => e.module)).size
ModuleSetSize(list) == Cardinality({list[i].module : i \in 1..Len(list)})

\* The trend rule over the exact quotients: slope = (nCurrent - nPrev) / days.
Trend_Exact(nCurrent, nPrev, days) ==
  IF 2 * (nCurrent - nPrev) > days THEN "accelerating"
  ELSE IF 2 * (nCurrent - nPrev) < -days THEN "cooling"
  ELSE "stable"

Trend(nCurrent, nPrev, days) ==
  LET densityCurrent == FloatDiv(nCurrent, days)
      densityPrev == FloatDiv(nPrev, days)
  IN IF SlopeAboveEpsilon(densityCurrent, densityPrev) THEN "accelerating"
     ELSE IF SlopeAboveEpsilon(densityPrev, densityCurrent) THEN "cooling"
     ELSE "stable"

\* An event without a module keeps an empty key.
ModuleKey_Mut(e) == IF Truthy(e.module) THEN e.module.s ELSE ""

\* e?.module || "unknown"
ModuleKey(e) == IF Truthy(e.module) THEN e.module.s ELSE "unknown"

\* The entries of `counts`, in the order the keys are first met.
CountsOf(keys) ==
  LET First(i) == \A j \in 1..(i - 1) : keys[j] # keys[i]
      first == SelectSeq([i \in 1..Len(keys) |-> i], First)
  IN [k \in 1..Len(first) |->
        [module |-> keys[first[k]],
         drift_units |-> Cardinality({j \in 1..Len(keys) : keys[j] = keys[first[k]]}),
         boundary |-> ""]]

ModulesOf(current) ==
  SortSeq(CountsOf([i \in 1..Len(current) |-> ModuleKey(current[i])]), DominanceBefore)

\* The analysis with the difference of the module counts as expansion.
AnalysisOf_Mut(current, previous, days, modules) ==
  [trend |-> Trend(Len(current), Len(previous), days),
   density |-> RoundDiv(100 * Len(current), days),
   slope |-> RoundDiv(100 * (Len(current) - Len(previous)), days),
   expansion |-> ModuleSetSize(current) - ModuleSetSize(previous),
   unique_modules |-> ModuleSetSize(current),
   unique_modules_prev |-> ModuleSetSize(previous),
   events_current |-> Len(current),
   events_prev |-> Len(previous),
   modules |-> modules,
   dominance |-> computeDriftDominance(modules, TopN)]

AnalysisOf(current, previous, days, modules) ==
  [trend |-> Trend(Len(current), Len(previous), days),
   density |-> RoundDiv(100 * Len(current), days),
   slope |-> RoundDiv(100 * (Len(current) - Len(previous)), days),
   expansion |-> Max(0, ModuleSetSize(current) - ModuleSetSize(previous)),
   unique_modules |-> ModuleSetSize(current),
   unique_modules_prev |-> ModuleSetSize(previous),
   events_current |-> Len(current),
   events_prev |-> Len(previous),
   modules |-> modules,
   dominance |-> computeDriftDominance(modules, TopN)]

AnalysisIn(all, days, currentStart, prevStart) ==
  IF ParseThrows(all) THEN Throw
  ELSE Ret(AnalysisOf(CurrentOf(all, currentStart),
                      PreviousOf(all, currentStart, prevStart),
                      days,
                      ModulesOf(CurrentOf(all, currentStart))))

analyzeDrift(eventsFile, window, nowMs) ==
  LET all == parseJsonlSafe(eventsFile)
      days == windowToDays(window)
  IN IF all.threw THEN Throw
     ELSE AnalysisIn(all.val, days, nowMs - days * DAY, nowMs - 2 * days * DAY)

(***************************************************************************)
(* status.mjs: buildDriftStatus.                                           *)
(***************************************************************************)
SignalPolicy == [affects_exit |-> FALSE, affects_risk_v1 |-> FALSE]

StatusOf(stats, window, nowMs) ==
  [kind |-> "drift_signal_bundle",
   v |-> 2,
   window |-> window,
   generated_at |-> toISOString(nowMs),
   trend |-> stats.trend,
   signal |-> [density |-> stats.density, slope |-> stats.slope,
               expansion |-> stats.expansion, unique_modules |-> stats.unique_modules],
   explain |-> [events |-> stats.events_current, events_prev |-> stats.events_prev],
   modules |-> stats.modules,
   dominance |-> stats.dominance,
   policy |-> SignalPolicy]

buildDriftStatus(eventsFile, window, nowMs) ==
  LET stats == analyzeDrift(eventsFile, window, nowMs)
  IN IF stats.threw THEN Throw ELSE Ret(StatusOf(stats.val, window, nowMs))

\* driftNoop.mjs: the bundle of the noop export.
driftNoop(window, nowMs) ==
  [kind |-> "drift_signal_bundle",
   v |-> 2,
   window |-> window,
   generated_at |-> toISOString(nowMs),
   trend |-> "stable",
   signal |-> [density |-> 0, slope |-> 0, expansion |-> 0, unique_modules |-> 0],
   policy |-> SignalPolicy]

(***************************************************************************)
(* compare.mjs: buildCompare.                                              *)
(***************************************************************************)
\* The comparison with the previous window's module count left out of delta.
CompareOf_Mut(r, window, densityPrev, nowMs) ==
  [kind |-> "drift_compare",
   v |-> 1,
   window |-> window,
   generated_at |-> toISOString(nowMs),
   a |-> [events |-> r.events_prev, unique_modules |-> r.unique_modules_prev,
          density |-> densityPrev, expansion |-> 0],
   b |-> [events |-> r.events_current, unique_modules |-> r.unique_modules,
          density |-> r.density, expansion |-> r.expansion],
   delta |-> [events |-> r.events_current - r.events_prev,
              unique_modules |-> r.unique_modules,
              density |-> r.density - densityPrev,
              expansion |-> r.expansion - 0]]

\* density is in hundredths; a difference of two numbers of two decimals,
\* taken in doubles and rounded by toFixed(2), is their exact difference.
CompareOf(r, window, densityPrev, nowMs) ==
  [kind |-> "drift_compare",
   v |-> 1,
   window |-> window,
   generated_at |-> toISOString(nowMs),
   a |-> [events |-> r.events_prev, unique_modules |-> r.unique_modules_prev,
          density |-> densityPrev, expansion |-> 0],
   b |-> [events |-> r.events_current, unique_modules |-> r.unique_modules,
          density |-> r.density, expansion |-> r.expansion],
   delta |-> [events |-> r.events_current - r.events_prev,
              unique_modules |-> r.unique_modules - r.unique_modules_prev,
              density |-> r.density - densityPrev,
              expansion |-> r.expansion - 0]]

buildCompare(eventsFile, window, nowMs) ==
  LET result == analyzeDrift(eventsFile, window, nowMs)
  IN IF result.threw THEN Throw
     ELSE Ret(CompareOf(result.val, window,
                        RoundDiv(100 * result.val.events_prev, windowToDays(window)),
                        nowMs))

(***************************************************************************)
(* timeline.mjs: buildTimeline.                                            *)
(***************************************************************************)
bucketStart(ts, bucket) ==
  IF bucket = "hour" THEN toISOString((ts \div TicksPerHour) * TicksPerHour)
  ELSE toISOString(UtcMidnight(ts))

\* The window filter without the first instant of the window.
TimelineKept_Mut(evs, start) ==
  LET In(e) == ~Falsy(DateParse(e.ts)) /\ DateParse(e.ts).n > start
  IN SelectSeq(evs, In)

\* The events that pass `if (!ts || ts < start) continue`.
TimelineKept(evs, start) ==
  LET In(e) == ~Falsy(DateParse(e.ts)) /\ DateParse(e.ts).n >= start
  IN SelectSeq(evs, In)

\* One row per bucket key, in ascending order of the key.
TimelineRows(kept, keys) ==
  LET First(i) == \A j \in 1..(i - 1) : keys[j] # keys[i]
      first == SelectSeq([i \in 1..Len(keys) |-> i], First)
      Before(a, b) == a.t.iso < b.t.iso
  IN SortSeq([k \in 1..Len(first) |->
                [t |-> keys[first[k]],
                 events |-> Cardinality({j \in 1..Len(keys) : keys[j] = keys[first[k]]}),
                 unique_modules |->
                   Cardinality({kept[j].module :
                                  j \in {j \in 1..Len(keys) : keys[j] = keys[first[k]]}})]],
             Before)

TimelineOf(kept, window, bucket, nowMs) ==
  [kind |-> "drift_timeline",
   v |-> 1,
   window |-> window,
   bucket |-> bucket,
   generated_at |-> toISOString(nowMs),
   series |-> TimelineRows(kept, [i \in 1..Len(kept) |->
                                    bucketStart(DateParse(kept[i].ts).n, bucket)])]

buildTimeline(eventsFile, window, bucket, nowMs) ==
  LET evs == parseJsonlSafe(eventsFile)
  IN IF evs.threw THEN Throw
     ELSE IF ParseThrows(evs.val) THEN Throw
     ELSE Ret(TimelineOf(TimelineKept(evs.val, nowMs - windowToDays(window) * DAY),
                         window, bucket, nowMs))

(***************************************************************************)
(* runGuard.mjs: the drift and assoc surfaces.  A command line is          *)
(*   [cmd, sub, help, format, args]                                        *)
(* where help says that --help or -h occurs in it, format is the --format  *)
(* value of drift status and args is what parseAssocArgs / parseDriftArgs  *)
(* read (the drift surface uses args.window only).  --out is not given.    *)
(* A license is [kind, edition].  What runGuard returns is                 *)
(* [exitCode, stdout]; stdout is [type, val] with the emitted object.      *)
(***************************************************************************)
EXIT_LICENSE_REQUIRED == 21
EXIT_ERROR_DEFAULT == 30

Done(exitCode, stdout) == Ret([exitCode |-> exitCode, stdout |-> stdout])
Help(which) == [type |-> "help", val |-> which]
Json(obj) == [type |-> "json", val |-> obj]

\* try { r } catch { fallback }, and safeTry(fn, fallback)
safeTry(r, fallback) == IF r.threw THEN fallback ELSE r.val

tierNumFromEdition(edition) ==
  IF edition = "pro+" THEN 2 ELSE IF edition = "pro" THEN 1 ELSE 0

\* null (gate = FALSE) or the license_required result.
licenseGateResult(lic, requiredEdition, feature) ==
  LET currentEdition == IF lic.kind = "ok" THEN lic.edition ELSE "community"
      required == IF requiredEdition = "pro_plus" THEN 2
                  ELSE IF requiredEdition = "pro" THEN 1 ELSE 0
  IN IF tierNumFromEdition(currentEdition) >= required THEN [gate |-> FALSE]
     ELSE [gate |-> TRUE,
           exitCode |-> EXIT_LICENSE_REQUIRED,
           stdout |-> [type |-> "license_required",
                       val |-> [feature |-> feature,
                                required_edition |-> IF requiredEdition = "pro_plus"
                                                     THEN "pro+" ELSE requiredEdition,
                                current_edition |-> currentEdition]]]

Gated(gate, result) == IF gate.gate THEN Done(gate.exitCode, gate.stdout) ELSE result

stableDriftBundle(window, nowMs) ==
  [kind |-> "drift_signal_bundle",
   v |-> 2,
   window |-> window,
   generated_at |-> toISOString(nowMs),
   trend |-> "stable",
   signal |-> [density |-> 0, slope |-> 0, expansion |-> 0, unique_modules |-> 0],
   explain |-> [events |-> 0, events_prev |-> 0],
   policy |-> SignalPolicy]

stableAssocBundle(args, nowMs) ==
  [kind |-> "association_bundle",
   v |-> 1,
   generated_at |-> toISOString(nowMs),
   window |-> args.window,
   bucket |-> args.bucket,
   metric_x |-> args.metric_x,
   metric_y |-> args.metric_y,
   series |-> <<>>,
   results |-> [pearson |-> [r |-> 0, n |-> 0],
                lags |-> <<[lag_days |-> 0, r |-> 0, n |-> 0]>>,
                robustness |-> [method |-> "block_bootstrap", subsamples |-> 100,
                                median_r |-> 0, iqr_r |-> 0, stability |-> "low"]]]

\* The fallback objects of drift timeline and drift compare.
StableTimeline(window, nowMs) ==
  [kind |-> "drift_timeline", v |-> 1, window |-> window, bucket |-> "day",
   generated_at |-> toISOString(nowMs), series |-> <<>>]

StableCompare(window, nowMs) ==
  [kind |-> "drift_compare", v |-> 1, window |-> window,
   generated_at |-> toISOString(nowMs), a |-> <<>>, b |-> <<>>, delta |-> <<>>]

renderDriftText(bundle) ==
  [type |-> "text",
   val |-> [window |-> bundle.window, trend |-> bundle.trend,
            density |-> bundle.signal.density, expansion |-> bundle.signal.expansion,
            unique_modules |-> bundle.signal.unique_modules,
            events |-> bundle.explain.events, events_prev |-> bundle.explain.events_prev]]

DriftStatusOut(format, bundle) ==
  Done(0, IF format = "json" THEN Json(bundle) ELSE renderDriftText(bundle))

runGuardDrift(argv, lic, eventsFile, nowMs) ==
  IF argv.sub = "status"
  THEN DriftStatusOut(argv.format,
                      safeTry(buildDriftStatus(eventsFile, argv.args.window, nowMs),
                              stableDriftBundle(argv.args.window, nowMs)))
  ELSE IF argv.sub = "timeline"
  THEN Gated(licenseGateResult(lic, "pro", "drift timeline"),
             Done(0, Json(safeTry(buildTimeline(eventsFile, argv.args.window, "day", nowMs),
                                  StableTimeline(argv.args.window, nowMs)))))
  ELSE IF argv.sub = "compare"
  THEN Gated(licenseGateResult(lic, "pro_plus", "drift compare"),
             Done(0, Json(safeTry(buildCompare(eventsFile, argv.args.window, nowMs),
                                  StableCompare(argv.args.window, nowMs)))))
  ELSE Done(0, Help("drift"))

runGuardAssoc(argv, lic, eventsFile, auditFile, nowMs, seed) ==
  IF argv.sub # "correlate" THEN Done(0, Help("assoc"))
  ELSE Gated(licenseGateResult(lic, "pro_plus", "assoc correlate"),
             Done(0, Json(safeTry(buildAssociationBundle(argv.args, eventsFile, auditFile,
                                                         nowMs, seed),
                                  stableAssocBundle(argv.args, nowMs)))))

runGuard(argv, lic, eventsFile, auditFile, nowMs, seed) ==
  IF argv.help THEN Done(0, Help("guard"))
  ELSE IF argv.cmd = "drift" THEN runGuardDrift(argv, lic, eventsFile, nowMs)
  ELSE runGuardAssoc(argv, lic, eventsFile, auditFile, nowMs, seed)

(***************************************************************************)
(* The second runGuard of the repository (the CLI entry that carries its   *)
(* own main): the same surfaces, coded differently.  Its builders are      *)
(* called with { repoRoot, window } or { repoRoot, argv }, so a builder    *)
(* that takes eventsPath gets none (NoPath: fs.existsSync(undefined) is    *)
(* false) and buildAssociationBundle runs on its defaults.                 *)
(***************************************************************************)
NoPath == Missing

stableDriftBundleVariant(window, nowMs) ==
  [kind |-> "drift_signal_bundle",
   v |-> 2,
   window |-> window,
   generated_at |-> toISOString(nowMs),
   trend |-> "stable",
   signal |-> [density |-> 0, unique_modules |-> 0, events_current |-> 0,
               events_prev |-> 0, expansion_modules |-> 0, top_modules |-> <<>>],
   events |-> <<>>]

\* signal.f ?? 0
FieldOr0(signal, f) == IF f \in DOMAIN signal THEN signal[f] ELSE 0

renderDriftTextVariant(bundle) ==
  [type |-> "text",
   val |-> [window |-> bundle.window, trend |-> bundle.trend,
            density |-> FieldOr0(bundle.signal, "density"),
            expansion |-> FieldOr0(bundle.signal, "expansion_modules"),
            unique_modules |-> FieldOr0(bundle.signal, "unique_modules"),
            events |-> FieldOr0(bundle.signal, "events_current"),
            events_prev |-> FieldOr0(bundle.signal, "events_prev")]]

DriftStatusOutVariant(format, bundle) ==
  Done(0, IF format = "json" THEN Json(bundle) ELSE renderDriftTextVariant(bundle))

\* if (!bundle) return { exitCode: EXIT_ERROR_DEFAULT, ... }
BundleOrError(r) ==
  IF r.threw THEN Done(EXIT_ERROR_DEFAULT, [type |-> "none", val |-> <<>>])
  ELSE Done(0, Json(r.val))

runGuardDriftVariant(argv, eventsFile, nowMs) ==
  IF argv.sub = "status"
  THEN DriftStatusOutVariant(argv.format,
                             safeTry(buildDriftStatus(eventsFile, argv.args.window, nowMs),
                                     stableDriftBundleVariant(argv.args.window, nowMs)))
  ELSE IF argv.sub = "timeline"
  THEN BundleOrError(buildTimeline(NoPath, argv.args.window, "day", nowMs))
  ELSE IF argv.sub = "compare"
  THEN BundleOrError(buildCompare(NoPath, argv.args.window, nowMs))
  ELSE Done(0, Help("guard"))

\* buildAssociationBundle({ repoRoot, argv }) is called outside any try.
AssocVariant(r) == IF r.threw THEN Throw ELSE Done(0, Json(r.val))

runGuardAssocVariant(argv, lic, eventsFile, auditFile, nowMs, seed) ==
  IF argv.sub # "correlate" THEN Done(2, [type |-> "none", val |-> <<>>])
  ELSE Gated(licenseGateResult(lic, "pro_plus", "assoc_correlate"),
             AssocVariant(buildAssociationBundle(DefaultArgs, eventsFile, auditFile,
                                                 nowMs, seed)))

runGuardVariant(argv, lic, eventsFile, auditFile, nowMs, seed) ==
  IF argv.help THEN Done(0, Help("guard"))
  ELSE IF argv.cmd = "drift" THEN runGuardDriftVariant(argv, eventsFile, nowMs)
  ELSE runGuardAssocVariant(argv, lic, eventsFile, auditFile, nowMs, seed)

\* main() of that entry: process.exit(res?.exitCode ?? 30), 30 on a crash.
mainVariant(res) == IF res.threw THEN EXIT_ERROR_DEFAULT ELSE res.val.exitCode

\* main() of runGuard.mjs: the exit code returned, 1 on a crash.
main(res) == IF res.threw THEN 1 ELSE res.val.exitCode

(***************************************************************************)
(* driftExport.mjs: the noop export prints driftNoop of the normalised     *)
(* window.                                                                 *)
(***************************************************************************)
normalizeWindow(w) == IF w \in {"7d", "14d", "30d"} THEN w ELSE "7d"

driftExport(window, nowMs) == Done(0, Json(driftNoop(normalizeWindow(window), nowMs)))

(***************************************************************************)
(* SpecCli: the command line run against the logs writers have filled.     *)
(* inp holds the installed license.                                        *)
(***************************************************************************)
Licenses ==
  { [kind |-> "missing", edition |-> ""],
    [kind |-> "ok", edition |-> "pro"],
    [kind |-> "ok", edition |-> "pro+"],
    [kind |-> "expired", edition |-> "pro+"] }

CliEventLines ==
  { DriftEvent(IsoStr(Now0 - 1), Text("alpha")),
    DriftEvent(IsoStr(Now0 - 8 * DAY), Text("beta")),
    DriftEvent(BadObject, Text("alpha")),
    BadLine }

CommandLine(cmd, sub, help, format, args) ==
  [cmd |-> cmd, sub |-> sub, help |-> help, format |-> format, args |-> args]

DriftLines ==
  { CommandLine("drift", "status", FALSE, f, [QuickArgs EXCEPT !.window = w]) :
      f \in {"text", "json"}, w \in {"7d", "14d"} }
  \cup { CommandLine("drift", s, FALSE, "text", QuickArgs) :
           s \in {"timeline", "compare", "bogus"} }
  \cup { CommandLine("drift", "status", TRUE, "json", QuickArgs) }

AssocLines ==
  { CommandLine("assoc", "correlate", FALSE, "json", a) :
      a \in {QuickArgs, [QuickArgs EXCEPT !.lags = ArgNum(2 * ArgDen)]} }
  \cup { CommandLine("assoc", "bogus", FALSE, "json", QuickArgs) }

NoSeed == [a |-> 0, b |-> 0]

\* The command lines with the Math.random stream each one meets.
Runs ==
  { [argv |-> c, seed |-> NoSeed] : c \in DriftLines }
  \cup { [argv |-> c, seed |-> s] : c \in AssocLines, s \in RandomSeeds }

InitCli ==
  /\ events = Missing
  /\ audit = Missing
  /\ now = Now0
  /\ inp \in {[lic |-> l] : l \in Licenses}
  /\ out = NoOut

InstallLicense ==
  /\ \E l \in Licenses : l # inp.lic /\ inp' = [inp EXCEPT !.lic = l]
  /\ out' = NoOut
  /\ UNCHANGED <<events, audit, now>>

RunGuard ==
  /\ out = NoOut
  /\ \E r \in Runs :
       out' = [op |-> "runGuard", argv |-> r.argv, lic |-> inp.lic, seed |-> r.seed,
               now |-> now,
               res |-> runGuard(r.argv, inp.lic, events, audit, now, r.seed)]
  /\ UNCHANGED <<events, audit, now, inp>>

RunGuardVariant ==
  /\ out = NoOut
  /\ \E r \in Runs :
       out' = [op |-> "runGuardVariant", argv |-> r.argv, lic |-> inp.lic,
               seed |-> r.seed, now |-> now,
               res |-> runGuardVariant(r.argv, inp.lic, events, audit, now, r.seed)]
  /\ UNCHANGED <<events, audit, now, inp>>

DriftExport ==
  /\ out = NoOut
  /\ \E w \in Windows :
       out' = [op |-> "driftExport", window |-> w, now |-> now, res |-> driftExport(w, now)]
  /\ UNCHANGED <<events, audit, now, inp>>

NextCli ==
  \/ AppendEvent(CliEventLines)
  \/ AppendAudit(AssocAuditLines)
  \/ BreakEvents
  \/ BreakAudit
  \/ Tick
  \/ InstallLicense
  \/ RunGuard
  \/ RunGuardVariant
  \/ DriftExport

SpecCli == InitCli /\ [][NextCli]_vars

(***************************************************************************)
(* C7: for drift status, drift timeline, drift compare and assoc           *)
(* correlate, the exit code of a run is the same for every content of the  *)
(* drift event log and of the audit log: the run returns, and with the     *)
(* exit code the same command line, license, clock and random stream give  *)
(* on missing logs.                                                        *)
(***************************************************************************)
IsSignalCommand(argv) ==
  /\ ~argv.help
  /\ \/ argv.cmd = "drift" /\ argv.sub \in {"status", "timeline", "compare"}
     \/ argv.cmd = "assoc" /\ argv.sub = "correlate"

C7_ExitIgnoresLogs ==
  /\ (out.op = "runGuard" /\ IsSignalCommand(out.argv)) =>
       /\ ~out.res.threw
       /\ out.res.val.exitCode =
            runGuard(out.argv, out.lic, Missing, Missing, out.now, out.seed).val.exitCode
  /\ (out.op = "runGuardVariant" /\ IsSignalCommand(out.argv)) =>
       /\ ~out.res.threw
       /\ out.res.val.exitCode =
            runGuardVariant(out.argv, out.lic, Missing, Missing, out.now,
                            out.seed).val.exitCode

(***************************************************************************)
(* C9: every association bundle that assoc correlate emits is tagged       *)
(* kind = "association_bundle" with v = 2, also when                       *)
(* buildAssociationBundle throws and the fallback bundle is emitted.       *)
(***************************************************************************)
EmitsJson == out.op \in {"runGuard", "runGuardVariant", "driftExport"}
             /\ ~out.res.threw
             /\ out.res.val.stdout.type = "json"

C9_AssocBundleTag ==
  (EmitsJson /\ out.op # "driftExport" /\ out.argv.cmd = "assoc") =>
    /\ out.res.val.stdout.val.kind = "association_bundle"
    /\ out.res.val.stdout.val.v = 2

(***************************************************************************)
(* C10: every drift_signal_bundle that is emitted (built by                *)
(* buildDriftStatus, printed by the noop export, or the fallback used when *)
(* buildDriftStatus throws) carries policy.affects_exit = false and        *)
(* policy.affects_risk_v1 = false.                                         *)
(***************************************************************************)
C10_PolicyTag ==
  (EmitsJson /\ out.res.val.stdout.val.kind = "drift_signal_bundle") =>
    /\ "policy" \in DOMAIN out.res.val.stdout.val
    /\ out.res.val.stdout.val.policy.affects_exit = FALSE
    /\ out.res.val.stdout.val.policy.affects_risk_v1 = FALSE

(***************************************************************************)
(* collector.mjs: collectDriftEvent.  An event to collect is a record of   *)
(* JSON values (all absent when no event object is passed); the line       *)
(* appended carries the fields the analyses read and the mirrored score,   *)
(* verdict and exit code.  fsOk says whether the file system lets the      *)
(* append through.                                                         *)
(***************************************************************************)
Evt(module, risk_score, verdict, exit_code) ==
  [module |-> module, risk_score |-> risk_score, verdict |-> verdict,
   exit_code |-> exit_code]

NoEvt == Evt(Undefined, Undefined, Undefined, Undefined)

DriftPayload(evt, nowMs) ==
  [json |-> TRUE, kind |-> "drift_event", v |-> 2, ts |-> IsoStr(nowMs),
   module |-> Coalesce(evt.module, Text("unknown")),
   risk_score |-> Coalesce(evt.risk_score, Null),
   verdict |-> Coalesce(evt.verdict, Null),
   exit_code |-> Coalesce(evt.exit_code, Null)]

\* fs.appendFileSync in try/catch: the file with the line, or the file as it was.
safeAppendLine(file, line, fsOk) ==
  IF fsOk /\ file.st # "dir" THEN File(Append(file.lines, line)) ELSE file

\* The append without its try/catch and without the outer one.
collectDriftEvent_Mut(evt, file, fsOk, nowMs) ==
  IF fsOk /\ file.st # "dir" THEN Ret(File(Append(file.lines, DriftPayload(evt, nowMs))))
  ELSE Throw

\* Returns the drift event log as the call leaves it.
collectDriftEvent(evt, file, fsOk, nowMs) ==
  Ret(safeAppendLine(file, DriftPayload(evt, nowMs), fsOk))

(***************************************************************************)
(* runAudit.mjs: runAudit.  argv is [mode, staged]; verdict and risk are   *)
(* what evaluateAudit and computeRiskV1 make of the diff; an entry of      *)
(* policy.exit_codes is a number or absent.  The result is what is         *)
(* returned (or thrown) with the two logs as the run leaves them.          *)
(***************************************************************************)
RunState(res, eventsFile, auditFile) ==
  [res |-> res, events |-> eventsFile, audit |-> auditFile]

ExitCodeOf(verdict, exit_codes) ==
  IF verdict = "allow" THEN exit_codes.allow
  ELSE IF verdict = "soft_block" THEN exit_codes.soft_block
  ELSE IF verdict = "hard_block" THEN exit_codes.hard_block
  ELSE exit_codes.error

\* lic.edition of loadGuardEditionFromLocalLicense
EditionOf(lic) == IF lic.kind = "ok" THEN lic.edition ELSE "community"

ContextOf(driftBundle) ==
  IF driftBundle.threw THEN Throw
  ELSE Ret([trend |-> driftBundle.val.trend,
            density |-> driftBundle.val.signal.density,
            slope |-> driftBundle.val.signal.slope,
            expansion |-> driftBundle.val.signal.expansion,
            unique_modules |-> driftBundle.val.signal.unique_modules,
            window |-> driftBundle.val.window,
            generated_at |-> driftBundle.val.generated_at,
            dominance |-> driftBundle.val.dominance])

\* driftContext: null (<<>>) unless the edition is pro and the bundle was built.
DriftContext(edition, eventsFile, nowMs) ==
  IF edition = "pro" THEN safeTry(ContextOf(buildDriftStatus(eventsFile, "7d", nowMs)), <<>>)
  ELSE <<>>

AuditOf(verdict, edition, driftContext) ==
  [evaluation |-> [verdict |-> verdict],
   context |-> driftContext,
   productization |-> [edition |-> edition]]

\* risk?.spread?.dominant_module || "unknown"
DominantModule(risk) ==
  IF risk.dominant_module = "" THEN "unknown" ELSE risk.dominant_module

AuditFinish(exitCode, auditObj, collected, eventsFile, auditFile) ==
  IF collected.threw THEN RunState(Throw, eventsFile, auditFile)
  ELSE RunState(Ret([exitCode |-> exitCode, audit |-> auditObj]), collected.val, auditFile)

\* readDriftTrendFromAuditJsonl (pro) and appendAuditJsonlLine throw on an
\* audit log that cannot be read or written.
AuditEvaluated(exitCode, edition, verdict, risk, eventsFile, auditFile, nowMs, fsOk) ==
  IF auditFile.st = "dir" THEN RunState(Throw, eventsFile, auditFile)
  ELSE AuditFinish(exitCode,
                   AuditOf(verdict, edition, DriftContext(edition, eventsFile, nowMs)),
                   collectDriftEvent(Evt(Text(DominantModule(risk)), Number(risk.score),
                                         Text(verdict), exitCode),
                                     eventsFile, fsOk, nowMs),
                   eventsFile,
                   File(Append(auditFile.lines, Scored(IsoStr(nowMs), Number(risk.score)))))

runAudit(argv, policy, lic, verdict, risk, eventsFile, auditFile, nowMs, fsOk) ==
  IF argv.mode = "local" /\ ~argv.staged
  THEN RunState(Ret([exitCode |-> Coalesce(policy.exit_codes.error, Number(30)),
                     audit |-> <<>>]),
                eventsFile, auditFile)
  ELSE AuditEvaluated(ExitCodeOf(verdict, policy.exit_codes), EditionOf(lic), verdict, risk,
                      eventsFile, auditFile, nowMs, fsOk)

(***************************************************************************)
(* SpecAudit: runAudit and the collector run against the logs writers have *)
(* filled; each run appends to them.  inp holds the installed license and  *)
(* the number of runs made, capped at MaxRuns.                             *)
(***************************************************************************)
MaxRuns == 1

AuditLicenses == {l \in Licenses : l.kind # "expired"}

AuditArgv == { [mode |-> "local", staged |-> FALSE],
               [mode |-> "ci", staged |-> FALSE] }

\* The exit codes of a policy file, and those of a policy file without the
\* allow and error entries (the policy guard init writes names the first
\* entry ok, so allow is absent; the file is loaded without validation).
Policies ==
  { [exit_codes |-> [allow |-> Number(0), soft_block |-> Number(10),
                     hard_block |-> Number(20), error |-> Number(30)]],
    [exit_codes |-> [allow |-> Undefined, soft_block |-> Number(10),
                     hard_block |-> Number(20), error |-> Undefined]] }

Verdicts == {"allow", "soft_block", "hard_block"}

Risks == { [score |-> 40, dominant_module |-> "core"] }

Events == { NoEvt,
            Evt(Text("edge"), Null, Text("allow"), Number(0)),
            Evt(Text(""), Number(12), Undefined, Null) }

InitAudit ==
  /\ events = Missing
  /\ audit = Missing
  /\ now = Now0
  /\ inp \in {[lic |-> l, runs |-> 0] : l \in AuditLicenses}
  /\ out = NoOut

RunAudit ==
  /\ out = NoOut
  /\ inp.runs < MaxRuns
  /\ \E argv \in AuditArgv, policy \in Policies, verdict \in Verdicts, risk \in Risks,
        fsOk \in BOOLEAN :
       LET r == runAudit(argv, policy, inp.lic, verdict, risk, events, audit, now, fsOk)
       IN /\ out' = [op |-> "runAudit", argv |-> argv, policy |-> policy,
                     verdict |-> verdict, fsOk |-> fsOk, now |-> now,
                     before |-> events, res |-> r.res]
          /\ events' = r.events
          /\ audit' = r.audit
  /\ inp' = [inp EXCEPT !.runs = @ + 1]
  /\ UNCHANGED now

Collect ==
  /\ out = NoOut
  /\ inp.runs < MaxRuns
  /\ \E evt \in Events, fsOk \in BOOLEAN :
       LET c == collectDriftEvent(evt, events, fsOk, now)
       IN /\ out' = [op |-> "collect", evt |-> evt, fsOk |-> fsOk, now |-> now,
                     before |-> events, res |-> c]
          /\ events' = IF c.threw THEN events ELSE c.val
  /\ inp' = [inp EXCEPT !.runs = @ + 1]
  /\ UNCHANGED <<audit, now>>

NextAudit ==
  \/ AppendEvent(CliEventLines)
  \/ AppendAudit(AssocAuditLines)
  \/ BreakEvents
  \/ BreakAudit
  \/ Tick
  \/ InstallLicense
  \/ RunAudit
  \/ Collect

SpecAudit == InitAudit /\ [][NextAudit]_vars

(***************************************************************************)
(* C8: the exit code runAudit returns is determined by the verdict and     *)
(* policy.exit_codes alone (exit_codes.error ?? 30 when local mode is not  *)
(* staged), for every content of the drift log, also when buildDriftStatus *)
(* throws or the collector cannot append; a run fails only on the audit    *)
(* log, never on the drift log; collectDriftEvent never throws; and the    *)
(* event appended is a drift_event of schema 2 recording the exit code     *)
(* returned (null when the policy has no code for the verdict).            *)
(***************************************************************************)
Evaluated(argv) == ~(argv.mode = "local" /\ ~argv.staged)

Appended(before, after) ==
  /\ after.st = "file"
  /\ Len(after.lines) = Len(before.lines) + 1
  /\ SubSeq(after.lines, 1, Len(before.lines)) = before.lines

C8_AuditExitIgnoresDrift ==
  /\ out.op = "collect" =>
       /\ ~out.res.threw
       /\ (out.fsOk /\ out.before.st # "dir") => Appended(out.before, events)
  /\ out.op = "runAudit" =>
       /\ out.res.threw => audit.st = "dir"
       /\ (~out.res.threw /\ ~Evaluated(out.argv)) =>
            /\ out.res.val.exitCode = Coalesce(out.policy.exit_codes.error, Number(30))
            /\ events = out.before
       /\ (~out.res.threw /\ Evaluated(out.argv)) =>
            /\ out.res.val.exitCode = out.policy.exit_codes[out.verdict]
            /\ IF out.fsOk /\ out.before.st # "dir"
               THEN /\ Appended(out.before, events)
                    /\ events.lines[Len(events.lines)].kind = "drift_event"
                    /\ events.lines[Len(events.lines)].v = 2
                    /\ events.lines[Len(events.lines)].exit_code =
                         Coalesce(out.res.val.exitCode, Null)
               ELSE events = out.before

\* A pro run over a drift log that cannot be read: buildDriftStatus throws and
\* the collector cannot append, and the hard_block code is returned.
C8_Witness ==
  /\ out.op = "runAudit"
  /\ inp.lic.edition = "pro"
  /\ out.before.st = "dir"
  /\ ~out.res.threw
  /\ out.verdict = "hard_block"
  /\ out.res.val.exitCode = Number(20)
  /\ out.res.val.audit.context = <<>>
  /\ events = out.before


(***************************************************************************)
(* SpecDrift: the drift event log is written line by line and read by      *)
(* analyzeDrift, buildDriftStatus and buildDriftDailySeries.               *)
(***************************************************************************)
\* A drift event whose record carries a boundary tag.
TaggedEvent(ts, m, b) ==
  [json |-> TRUE, kind |-> "drift_event", v |-> 2, ts |-> ts, module |-> m, boundary |-> b]

DriftLogLines ==
  { BadLine,
    EventLine("audit_event", 2, IsoStr(Now0 - 1), Text("alpha")),
    EventLine("drift_event", 1, IsoStr(Now0 - 1), Text("alpha")),
    DriftEvent(IsoStr(Now0 - 1), Text("alpha")),
    DriftEvent(IsoStr(Now0 - 1), Text("beta")),
    DriftEvent(IsoStr(Now0 - 1), Undefined),
    DriftEvent(IsoStr(Now0 - 8 * DAY), Text("beta")),
    DriftEvent(IsoStr(Now0 - 8 * DAY), Text("gamma")),
    DriftEvent(IsoStr(Now0 - 7 * DAY), Text("delta")),
    DriftEvent(IsoStr(Now0 - 14 * DAY), Text("delta")),
    DriftEvent(IsoStr(Now0 - 70 * DAY), Text("alpha")),
    DriftEvent(Text("not a date"), Text("alpha")),
    TaggedEvent(IsoStr(Now0 - 1), Text("alpha"), "core"),
    TaggedEvent(IsoStr(Now0 - 1), Text("core"), "edge") }

\* The log file is created with no line in it.
Touch ==
  /\ events = Missing
  /\ events' = File(<<>>)
  /\ out' = NoOut
  /\ UNCHANGED <<audit, now, inp>>

Analyze ==
  /\ out = NoOut
  /\ \E w \in Windows :
       out' = [op |-> "analyze", window |-> w, now |-> now,
               res |-> analyzeDrift(events, w, now)]
  /\ UNCHANGED <<events, audit, now, inp>>

Status ==
  /\ out = NoOut
  /\ \E w \in Windows :
       out' = [op |-> "status", window |-> w, now |-> now,
               res |-> buildDriftStatus(events, w, now)]
  /\ UNCHANGED <<events, audit, now, inp>>

NextDrift ==
  \/ Touch
  \/ AppendEvent(DriftLogLines)
  \/ Tick
  \/ Analyze
  \/ Status
  \/ DriftDaily

SpecDrift == InitEnv /\ [][NextDrift]_vars

\* The log is missing, empty, or holds no line that parses as a drift event of schema 2.
QuietLog ==
  /\ events.st # "dir"
  /\ \A i \in 1..Len(events.lines) :
       ~(events.lines[i].json /\ events.lines[i].kind = "drift_event" /\ events.lines[i].v = 2)

EmptyDominance(d) ==
  /\ d.dominance_ratio = Share(0, 0)
  /\ d.top_modules = <<>>

(***************************************************************************)
(* C11: when the drift event log is missing, empty, or holds only          *)
(* malformed lines and lines that are not drift events of schema 2, no     *)
(* reader fails: analyzeDrift and buildDriftStatus report trend "stable",  *)
(* density 0, unique_modules 0, dominance_ratio 0 and no top module, and   *)
(* buildDriftDailySeries returns one zero row for every day of the window. *)
(***************************************************************************)
C11_QuietLogIsStable ==
  QuietLog =>
    /\ out.op \in {"analyze", "status", "driftDaily"} => ~out.res.threw
    /\ out.op = "analyze" =>
         /\ out.res.val.trend = "stable"
         /\ out.res.val.density = 0
         /\ out.res.val.unique_modules = 0
         /\ EmptyDominance(out.res.val.dominance)
    /\ out.op = "status" =>
         /\ out.res.val.trend = "stable"
         /\ out.res.val.signal.density = 0
         /\ out.res.val.signal.unique_modules = 0
         /\ EmptyDominance(out.res.val.dominance)
    /\ out.op = "driftDaily" =>
         /\ Len(out.res.val) = windowToDays(out.window)
         /\ \A i \in 1..Len(out.res.val) :
              /\ out.res.val[i].drift_events = 0
              /\ out.res.val[i].drift_unique_modules = 0

\* The status was built from a log of one malformed line and one line of another kind.
C11_Witness ==
  /\ out.op = "status"
  /\ QuietLog
  /\ Len(events.lines) = 2
  /\ \E i \in 1..2 : ~events.lines[i].json
  /\ \E i \in 1..2 : events.lines[i].json /\ events.lines[i].kind = "audit_event"
  /\ out.res.val.trend = "stable"


(***************************************************************************)
(* SpecTrend: analyzeDrift and buildDriftStatus over logs that hold up to  *)
(* MaxBatch events of an older day followed by up to MaxBatch events of    *)
(* the last hour.  The older day is 10, 20 or 40 days back, which is in    *)
(* the previous window for 7d, 14d and 30d respectively.                   *)
(***************************************************************************)
MaxBatch == 19

BatchAges == {10 * DAY, 20 * DAY, 40 * DAY}

BatchLog(nOld, age, nNew) ==
  File([i \in 1..(nOld + nNew) |->
          IF i <= nOld THEN DriftEvent(IsoStr(Now0 - age), Text("beta"))
          ELSE DriftEvent(IsoStr(Now0 - 1), Text("alpha"))])

InitTrend ==
  /\ \E nOld \in 0..MaxBatch, nNew \in 0..MaxBatch, age \in BatchAges :
       events = BatchLog(nOld, age, nNew)
  /\ audit = Missing
  /\ now = Now0
  /\ inp = NoInp
  /\ out = NoOut

NextTrend ==
  \/ Analyze
  \/ Status

SpecTrend == InitTrend /\ [][NextTrend]_vars

(***************************************************************************)
(* C12: for every pair of event counts analyzeDrift reports exactly one    *)
(* trend label: "accelerating" iff slope > 0.5, "cooling" iff slope < -0.5 *)
(* and "stable" otherwise, for slope = events_current / days -             *)
(* events_prev / days.                                                     *)
(***************************************************************************)
C12_TrendRule ==
  out.op = "analyze" /\ ~out.res.threw =>
    LET r == out.res.val
        days == windowToDays(out.window)
    IN /\ r.trend \in {"accelerating", "cooling", "stable"}
       /\ r.trend = "accelerating" <=> 2 * (r.events_current - r.events_prev) > days
       /\ r.trend = "cooling" <=> 2 * (r.events_current - r.events_prev) < -days

(***************************************************************************)
(* C13: two runs of buildAssociationBundle over the same logs, with the    *)
(* same arguments and the same nowMs, agree on whether a bundle is         *)
(* returned and on its series, diagnostics, results.pearson and            *)
(* results.lags, whatever values the random source yields in each run;     *)
(* only results.robustness and generated_at may differ.                    *)
(***************************************************************************)
OtherRun(seed) == buildAssociationBundle(out.args, events, audit, out.now, seed)

SameDeterministicPart(a, b) ==
  /\ a.threw = b.threw
  /\ ~a.threw =>
       /\ a.val.series = b.val.series
       /\ a.val.diagnostics = b.val.diagnostics
       /\ a.val.results.pearson = b.val.results.pearson
       /\ a.val.results.lags = b.val.results.lags

C13_RunsAgree ==
  out.op = "correlate" =>
    \A seed \in RandomSeeds : SameDeterministicPart(out.res, OtherRun(seed))

\* A bundle whose robustness part comes out differently under another
\* random source, over a series with drift and risk on the same day.
C13_Witness ==
  /\ IsBundle
  /\ \E i \in 1..Len(out.res.val.series) :
       out.res.val.series[i].x # 0 /\ out.res.val.series[i].y # 0
  /\ \E seed \in RandomSeeds :
       /\ OtherRun(seed).val.results.robustness # out.res.val.results.robustness
       /\ SameDeterministicPart(out.res, OtherRun(seed))


(***************************************************************************)
(* SpecClamp: buildAssociationBundle under every combination of a window,  *)
(* a lags argument and a subsamples argument, over short logs.  passes is  *)
(* the number of times the body of the subsample loop is entered.          *)
(***************************************************************************)
LagsChoices ==
  { ArgNull, ArgNum(0), ArgNum(-2 * ArgDen), ArgNum(3 * ArgDen), ArgNum(100 * ArgDen),
    ArgText }

SubsamplesChoices ==
  { ArgNum(0), ArgNum(-5 * ArgDen), ArgNum(20 * ArgDen), ArgNum(100 * ArgDen),
    ArgNum(600 * ArgDen), ArgText }

ClampArgs ==
  { [DefaultArgs EXCEPT !.window = w, !.lags = l, !.subsamples = s] :
      w \in {"7d", "14d", "30d"}, l \in LagsChoices, s \in SubsamplesChoices }

InitClamp ==
  /\ events \in {Missing, File(<<DriftEvent(IsoStr(Now0), Text("alpha"))>>)}
  /\ audit \in {Missing, File(<<Scored(IsoStr(Now0), Number(6))>>)}
  /\ now = Now0
  /\ inp \in {[args |-> a] : a \in ClampArgs}
  /\ out = NoOut

CorrelateArgs ==
  /\ out = NoOut
  /\ \E seed \in RandomSeeds :
       out' = [op |-> "correlate", args |-> inp.args, now |-> now,
               passes |-> Iterations(SubsamplesOf(inp.args.subsamples)),
               res |-> buildAssociationBundle(inp.args, events, audit, now, seed)]
  /\ UNCHANGED <<events, audit, now, inp>>

NextClamp ==
  \/ CorrelateArgs
  \/ Tick

SpecClamp == InitClamp /\ [][NextClamp]_vars

(***************************************************************************)
(* C14: maxLag is clamp(days, 3, 14) when no lags value is given (7 for    *)
(* 7d, 14 for 14d and 30d) and otherwise the user value clamped to         *)
(* [0, 14]; the number of bootstrap iterations is the subsamples argument  *)
(* clamped to [20, 500]; for every argument value, zero, negative, very    *)
(* large and non-numeric ones included.  A non-numeric value has no        *)
(* clamped value: the result is then only required to lie in the range.    *)
(***************************************************************************)
C14_MaxLag == -out.res.val.results.lags[1].lag_days

C14_MaxLagClamped ==
  IsBundle =>
    /\ out.args.lags.kind = "null" =>
         /\ C14_MaxLag = clamp(windowToDays(out.args.window), 3, 14) * ArgDen
         /\ C14_MaxLag = (IF out.args.window = "7d" THEN 7 ELSE 14) * ArgDen
    /\ out.args.lags.kind = "num" => C14_MaxLag = clamp(out.args.lags.q, 0, 14 * ArgDen)
    /\ out.args.lags.kind = "text" => C14_MaxLag \in 0..(14 * ArgDen)

C14_ClampedArgs ==
  /\ C14_MaxLagClamped
  /\ IsBundle =>
       /\ out.args.subsamples.kind = "num" =>
            out.passes * ArgDen = clamp(out.args.subsamples.q, 20 * ArgDen, 500 * ArgDen)
       /\ out.args.subsamples.kind # "num" => out.passes \in 20..500


(***************************************************************************)
(* SpecLinear: pearsonStats, computeLagStats and the lag sweep of          *)
(* buildAssociationBundle over a series X and a series Y = a * X + b,      *)
(* which is bent at its first point in half of the cases.  X is any        *)
(* series of 3 to MaxPoints values of 0..2, or the ramp 1..7 or 1..10.     *)
(***************************************************************************)
MaxPoints == 4

Ramp(n) == [i \in 1..n |-> i]

LinearXs ==
  UNION {[1..n -> 0..2] : n \in 3..MaxPoints} \cup {Ramp(7), Ramp(10)}

LinearInput(X, a, b, bend) ==
  [xs |-> [i \in 1..Len(X) |-> Num(X[i])],
   ys |-> [i \in 1..Len(X) |-> Num(a * X[i] + b + (IF i = 1 THEN bend ELSE 0))]]

InitLinear ==
  /\ events = Missing
  /\ audit = Missing
  /\ now = Now0
  /\ inp \in {LinearInput(X, a, b, bend) : X \in LinearXs, a \in 1..2, b \in 0..1,
                                            bend \in 0..1}
  /\ out = NoOut

\* results.pearson and results.lags as buildAssociationBundle fills them.
Results ==
  /\ out = NoOut
  /\ \E maxLag \in {0, 3 * ArgDen, clamp(Len(inp.xs), 3, 14) * ArgDen} :
       out' = [op |-> "results",
               res |-> [pearson |-> PearsonEntry(pearsonStats(inp.xs, inp.ys), Len(inp.xs)),
                        lags |-> LagSweep(inp.xs, inp.ys, -maxLag, maxLag, Len(inp.xs))]]
  /\ UNCHANGED <<events, audit, now, inp>>

NextLinear ==
  \/ Results
  \/ Pearson
  \/ LagStats

SpecLinear == InitLinear /\ [][NextLinear]_vars

\* Y = a * X + b over the series for some real a > 0, with X not constant.
IncreasingLinear(xs, ys) ==
  \E i, j \in 1..Len(xs) :
    /\ (ys[j].n - ys[i].n) * (xs[j].n - xs[i].n) > 0
    /\ \A k \in 1..Len(xs) :
         (ys[k].n - ys[i].n) * (xs[j].n - xs[i].n) = (ys[j].n - ys[i].n) * (xs[k].n - xs[i].n)

(***************************************************************************)
(* C15: when Y is an exact increasing linear function of X over the series *)
(* (X takes two values at least), the main Pearson result has r = 1 and    *)
(* degenerate = false, and among all entries of the lag sweep the entry    *)
(* with lag_days = 0 attains the maximum |r|.  r is in ten-thousandths.    *)
(***************************************************************************)
C15_LinearIsOne ==
  /\ out.op = "results" /\ IncreasingLinear(inp.xs, inp.ys) =>
       /\ out.res.pearson.r = 10000
       /\ ~out.res.pearson.degenerate
       /\ \E i \in 1..Len(out.res.lags) :
            /\ out.res.lags[i].lag_days = 0
            /\ \A j \in 1..Len(out.res.lags) :
                 Abs(out.res.lags[j].r) <= Abs(out.res.lags[i].r)
  /\ out.op = "pearsonStats" /\ IncreasingLinear(inp.xs, inp.ys) =>
       out.res.r = 10000 /\ ~out.res.degenerate

\* X = 1..10 and Y = 2X + 1 under the sweep from -10 to 10.
C15_Witness ==
  /\ out.op = "results"
  /\ Len(inp.xs) = 10
  /\ \A i \in 1..10 : inp.xs[i].n = i /\ inp.ys[i].n = 2 * i + 1
  /\ out.res.pearson.r = 10000
  /\ Len(out.res.lags) = 21
  /\ \E j \in 1..Len(out.res.lags) : out.res.lags[j].degenerate

(***************************************************************************)
(* C16: in the drift status bundle cross_boundary.is_cross_boundary is     *)
(* true exactly when the records of the current window carry more than one *)
(* distinct boundary tag, and cross_boundary.boundaries lists the          *)
(* contribution of every boundary, ordered by contribution descending and  *)
(* then by boundary name ascending; with all events in one module and one  *)
(* boundary it is false.                                                   *)
(***************************************************************************)
CurrentRecords ==
  CurrentOf(parseJsonlSafe(events).val, out.now - windowToDays(out.window) * DAY)

TagOf(e) == IF "boundary" \in DOMAIN e THEN e.boundary ELSE ""

CurrentTags == {TagOf(CurrentRecords[i]) : i \in 1..Len(CurrentRecords)} \ {""}

TagContribution(b) ==
  Cardinality({i \in 1..Len(CurrentRecords) : TagOf(CurrentRecords[i]) = b})

C16_CrossBoundary ==
  out.op = "status" /\ ~out.res.threw =>
    LET cb == out.res.val.dominance.cross_boundary IN
    /\ cb.is_cross_boundary <=> Cardinality(CurrentTags) > 1
    /\ Len(cb.boundaries) = Cardinality(CurrentTags)
    /\ \A i \in 1..Len(cb.boundaries) :
         /\ cb.boundaries[i].boundary \in CurrentTags
         /\ cb.boundaries[i].contribution = TagContribution(cb.boundaries[i].boundary)
    /\ \A i, j \in 1..Len(cb.boundaries) :
         i < j => BoundaryBefore(cb.boundaries[i], cb.boundaries[j])

(***************************************************************************)
(* C17: in the drift daily series, for each day d of the window,           *)
(* drift_events(d) is the number of log lines that parse as drift events   *)
(* (kind "drift_event", v 2, string ts) whose ts falls on UTC calendar day *)
(* d, and drift_unique_modules(d) is the number of distinct non-empty      *)
(* string module values among them.  A malformed line is skipped without   *)
(* affecting the others and an event whose ts lies outside the window is   *)
(* counted in no bucket: the drift_events of the series sum up to the      *)
(* number of valid events of the window.                                   *)
(***************************************************************************)
\* Line l parses as a drift event whose ts is an instant of [from, to).
EventWithin(l, from, to) ==
  /\ l.json /\ l.kind = "drift_event" /\ l.v = 2
  /\ l.ts.type = "string" /\ l.ts.date
  /\ from <= l.ts.ms /\ l.ts.ms < to

LinesWithin(from, to) ==
  {k \in 1..Len(events.lines) : EventWithin(events.lines[k], from, to)}

ModulesWithin(from, to) ==
  {events.lines[k].module.s :
     k \in {j \in LinesWithin(from, to) :
              events.lines[j].module.type = "string" /\ events.lines[j].module.s # ""}}

C17_DailyCounts ==
  out.op = "driftDaily" /\ ~out.res.threw =>
    LET s == out.res.val IN
    /\ \A i \in 1..Len(s) :
         /\ s[i].drift_events = Cardinality(LinesWithin(s[i].t.iso, s[i].t.iso + DAY))
         /\ s[i].drift_unique_modules =
              Cardinality(ModulesWithin(s[i].t.iso, s[i].t.iso + DAY))
    /\ SumSeq([i \in 1..Len(s) |-> s[i].drift_events]) =
         Cardinality(LinesWithin(s[1].t.iso, s[1].t.iso + Len(s) * DAY))

\* Two events of today, one of them without a module, beside none of another day.
C17_Witness ==
  /\ out.op = "driftDaily"
  /\ ~out.res.threw
  /\ Len(events.lines) = 2
  /\ \E k \in 1..2 : events.lines[k].module.type # "string"
  /\ out.res.val[Len(out.res.val)].drift_events = 2
  /\ out.res.val[Len(out.res.val)].drift_unique_modules = 1

(***************************************************************************)
(* C18: analyzeDrift assigns every event to at most one of the two         *)
(* windows: events_current counts exactly the events whose ts lies in the  *)
(* most recent `days` days before now, events_prev counts exactly the      *)
(* events whose ts lies in the `days` days before that, and an event older *)
(* than 2 * days or with an unparsable ts is counted in neither.  The      *)
(* first instant of a window belongs to it.                                *)
(***************************************************************************)
AnalyzedTicks == windowToDays(out.window) * DAY

ModuleValues(from, to) == {events.lines[k].module : k \in LinesWithin(from, to)}

C19_Expansion ==
  out.op = "analyze" /\ ~out.res.threw =>
    LET r == out.res.val IN
    /\ r.unique_modules =
         Cardinality(ModuleValues(out.now - AnalyzedTicks, out.now + 1))
    /\ r.unique_modules_prev =
         Cardinality(ModuleValues(out.now - 2 * AnalyzedTicks, out.now - AnalyzedTicks))
    /\ r.expansion = Max(0, r.unique_modules - r.unique_modules_prev)
    /\ r.expansion >= 0
    /\ r.unique_modules <= r.unique_modules_prev => r.expansion = 0

\* The previous window holds two modules and the current window none.
C19_Witness ==
  /\ out.op = "analyze"
  /\ out.res.val.unique_modules_prev = 2
  /\ out.res.val.unique_modules = 0
  /\ out.res.val.expansion = 0

(***************************************************************************)
(* C20: in every bundle built by buildAssociationBundle the drift daily    *)
(* series and the risk daily series have the same length and the same      *)
(* start day, so for every index i entry i of the joint series pairs the   *)
(* drift value and the risk value of the same UTC day, its t, and the      *)
(* joint series has exactly `days` entries.                                *)
(***************************************************************************)
BundleDrift == buildDriftDailySeries(events, out.args.window, out.now).val

BundleRisk == buildRiskDailySeries(audit, out.args.window, out.now).val

AuditWithin(from, to) ==
  {k \in 1..Len(audit.lines) :
     /\ audit.lines[k].json
     /\ ~Falsy(DateParse(extractTs(audit.lines[k])))
     /\ from <= DateParse(extractTs(audit.lines[k])).n
     /\ DateParse(extractTs(audit.lines[k])).n < to}

C20_SeriesAligned ==
  IsBundle =>
    LET s == out.res.val.series
        a == out.args
    IN /\ Len(BundleDrift) = Len(BundleRisk)
       /\ BundleDrift[1].t = BundleRisk[1].t
       /\ Len(s) = windowToDays(a.window)
       /\ \A i \in 1..Len(s) :
            /\ s[i].t = BundleDrift[i].t
            /\ s[i].t = BundleRisk[i].t
            /\ a.metric_x = "drift_density" =>
                 s[i].x = Cardinality(LinesWithin(s[i].t.iso, s[i].t.iso + DAY))
            /\ a.metric_x = "drift_unique_modules" =>
                 s[i].x = Cardinality(ModulesWithin(s[i].t.iso, s[i].t.iso + DAY))
            /\ a.metric_y = "risk_events" =>
                 s[i].y = Cardinality(AuditWithin(s[i].t.iso, s[i].t.iso + DAY))
            /\ a.metric_y = "risk_score_avg" => s[i].y = BundleRisk[i].risk_score_avg
            /\ a.metric_y = "risk_score_p95" => s[i].y = BundleRisk[i].risk_score_p95

\* A drift event and a scored audit record of yesterday, paired in the entry
\* of yesterday, with nothing today.
C20_Witness ==
  /\ IsBundle
  /\ LET s == out.res.val.series IN
       /\ s[Len(s) - 1].x # 0
       /\ s[Len(s) - 1].y # 0
       /\ s[Len(s)].x = 0
       /\ s[Len(s)].y = 0


(***************************************************************************)
(* SpecPearson: pearsonStats and computeLagStats over a count series X and *)
(* a score series Y of two decimals, built pair by pair, or over the drift *)
(* series [0,0,0,0,0,0,10] against a constant score series.                *)
(***************************************************************************)
ScorePairs ==
  { <<Num(0), Dec(0, 100)>>, <<Num(10), Dec(0, 100)>>, <<Num(0), Dec(10, 100)>>,
    <<Num(10), Dec(10, 100)>>, <<Num(10), Dec(35, 100)>>, <<NaN, Dec(10, 100)>>,
    <<Num(0), NaN>> }

SpikeSeries == [i \in 1..7 |-> IF i = 7 THEN Num(10) ELSE Num(0)]

InitPearson ==
  /\ events = Missing
  /\ audit = Missing
  /\ now = Now0
  /\ \/ \E n \in 0..MaxPoints : \E ps \in [1..n -> ScorePairs] :
          inp = [xs |-> [i \in 1..n |-> ps[i][1]], ys |-> [i \in 1..n |-> ps[i][2]]]
     \/ \E h \in {0, 10, 3333} :
          inp = [xs |-> SpikeSeries, ys |-> [i \in 1..7 |-> Dec(h, 100)]]
  /\ out = NoOut

\* pearsonStats(xs, ys) of the two arrays.
PearsonStats ==
  /\ out = NoOut
  /\ out' = [op |-> "pearsonStats", res |-> pearsonStats(inp.xs, inp.ys)]
  /\ UNCHANGED <<events, audit, now, inp>>

\* computeLagStats(xs, ys, lag) for a whole lag.
LagStatsAt ==
  /\ out = NoOut
  /\ \E lag \in -MaxPoints..MaxPoints :
       out' = [op |-> "computeLagStats", lag |-> lag * ArgDen,
               res |-> computeLagStats(inp.xs, inp.ys, lag * ArgDen)]
  /\ UNCHANGED <<events, audit, now, inp>>

NextPearson ==
  \/ PearsonStats
  \/ LagStatsAt

SpecPearson == InitPearson /\ [][NextPearson]_vars

\* The indices at which both values are finite.
KeptIdx == {i \in 1..Min(Len(inp.xs), Len(inp.ys)) : ~inp.xs[i].nan /\ ~inp.ys[i].nan}

(***************************************************************************)
(* C21: pearsonStats keeps only the index pairs in which both values are   *)
(* finite and reports degenerate = true exactly when fewer than 3 such     *)
(* pairs remain or all kept x values are equal or all kept y values are    *)
(* equal; a degenerate result has r = 0 and the drift series               *)
(* [0,0,0,0,0,0,10] against a constant risk series is degenerate with      *)
(* variance_y = 0.                                                         *)
(***************************************************************************)
C21_DegenerateRule ==
  out.op = "pearsonStats" =>
    /\ out.res.n_effective = Cardinality(KeptIdx)
    /\ out.res.degenerate <=>
         \/ Cardinality(KeptIdx) < 3
         \/ \A i, j \in KeptIdx : inp.xs[i] = inp.xs[j]
         \/ \A i, j \in KeptIdx : inp.ys[i] = inp.ys[j]
    /\ out.res.degenerate => out.res.r = 0
    /\ inp.xs = SpikeSeries =>
         out.res.degenerate /\ VarIsZero(out.res.variance_y) /\ out.res.r = 0

(***************************************************************************)
(* C22: for every lag in the sweep, the lag entry is computed on exactly   *)
(* the pairs (x[i], y[i + lag]) with both indices in range, so that        *)
(* n_pairs = max(0, n - |lag|) with n the full series length reported as   *)
(* n; an entry with fewer than 3 effective pairs is degenerate with r = 0; *)
(* and the entry with lag_days = 0 has the same r, n_effective and         *)
(* degenerate as results.pearson.  Lags are in units of 1 / ArgDen.        *)
(***************************************************************************)
\* const xs = series.map(s => s.x); const ys = series.map(s => s.y)
BundleXs(b) == [i \in 1..Len(b.series) |-> Num(b.series[i].x)]
BundleYs(b) ==
  [i \in 1..Len(b.series) |->
     IF b.metric_y = "risk_events" THEN Num(b.series[i].y)
     ELSE Dec(b.series[i].y, 100)]

\* The positions i (from 1) of x whose partner position i + lag exists.
ShiftedIdx(n, lag) ==
  SelectSeq([i \in 1..n |-> i],
            LAMBDA i : lag % ArgDen = 0 /\ i + (lag \div ArgDen) \in 1..n)

ShiftedStats(xs, ys, idx, lag) ==
  pearsonStats([k \in 1..Len(idx) |-> xs[idx[k]]],
               [k \in 1..Len(idx) |-> ys[idx[k] + (lag \div ArgDen)]])

LagEntryAgrees(e, s) ==
  /\ e.n_effective = s.n_effective
  /\ e.n_effective < 3 => e.degenerate /\ e.r = 0
  /\ e.n_effective >= 3 =>
       /\ e.degenerate = s.degenerate
       /\ e.r = IF s.degenerate THEN 0 ELSE s.r

LagEntryOk(e, xs, ys, n, lag) ==
  /\ e.n_pairs * ArgDen = Max(0, n * ArgDen - Abs(lag))
  /\ LagEntryAgrees(e, ShiftedStats(xs, ys, ShiftedIdx(n, lag), lag))

SameAsPearson(e, p) ==
  e.r = p.r /\ e.n_effective = p.n_effective /\ e.degenerate = p.degenerate

BundleLagsOk(b, lagSet) ==
  \A i \in 1..Len(b.results.lags) :
    LET e == b.results.lags[i] IN
    e.lag_days \in lagSet =>
      /\ e.n = Len(b.series)
      /\ LagEntryOk(e, BundleXs(b), BundleYs(b), e.n, e.lag_days)
      /\ e.lag_days = 0 => SameAsPearson(e, b.results.pearson)

AnyLag == (-15 * ArgDen)..(15 * ArgDen)
WholeLag == {l \in AnyLag : l % ArgDen = 0}

C22_LagEntries ==
  /\ IsBundle => BundleLagsOk(out.res.val, AnyLag)
  /\ out.op = "computeLagStats" =>
       LagEntryOk(out.res, inp.xs, inp.ys, Min(Len(inp.xs), Len(inp.ys)), out.lag)

\* The same statement for the whole lags alone.
C22_WholeLagEntries ==
  /\ IsBundle => BundleLagsOk(out.res.val, WholeLag)
  /\ out.op = "computeLagStats" /\ out.lag \in WholeLag =>
       LagEntryOk(out.res, inp.xs, inp.ys, Min(Len(inp.xs), Len(inp.ys)), out.lag)

\* A bundle whose sweep has a non-degenerate entry at a lag other than 0
\* and an entry with no pair at all.
C22_WholeLagWitness ==
  /\ IsBundle
  /\ \E i \in 1..Len(out.res.val.results.lags) :
       LET e == out.res.val.results.lags[i] IN
       e.lag_days \in WholeLag \ {0} /\ ~e.degenerate /\ e.r # 0
  /\ \E i \in 1..Len(out.res.val.results.lags) :
       out.res.val.results.lags[i].n_pairs = 0

(***************************************************************************)
(* C23: for a series of length n >= 3 every iteration of blockBootstrapR   *)
(* draws max(1, floor(n / 2)) blocks, each of them two consecutive indices *)
(* start, start + 1 with 0 <= start <= n - 2, so that every index read     *)
(* lies in [0, n) and each sample has 2 * floor(n / 2) pairs; each of the  *)
(* `subsamples` iterations is counted exactly once, as a used sample or as *)
(* a degenerate one, so samples_used + degenerate count = subsamples.      *)
(* inp.idx holds positions from 1; subsamples is in units of 1 / ArgDen.   *)
(***************************************************************************)
BlocksDrawn ==
  /\ Len(inp.idx) = 2 * Max(1, BootN \div 2)
  /\ Len(inp.idx) = 2 * (BootN \div 2)
  /\ \A k \in 1..Len(inp.idx) : inp.idx[k] - 1 >= 0 /\ inp.idx[k] - 1 < BootN
  /\ \A b \in 1..(Len(inp.idx) \div 2) :
       /\ inp.idx[2 * b - 1] - 1 <= BootN - 2
       /\ inp.idx[2 * b] = inp.idx[2 * b - 1] + 1

CountedOnce == Len(inp.rs) + inp.degenerateCount = inp.s

C23_BootstrapPasses ==
  BootN >= 3 =>
    /\ inp.s > 0 => BlocksDrawn /\ CountedOnce
    /\ out.op = "bootstrap" =>
         (out.res.samples_used + inp.degenerateCount) * ArgDen = inp.subsamples

\* The same statement for a whole number of subsamples.
C23_WholePasses ==
  BootN >= 3 /\ inp.subsamples % ArgDen = 0 =>
    /\ inp.s > 0 => BlocksDrawn /\ CountedOnce
    /\ out.op = "bootstrap" =>
         (out.res.samples_used + inp.degenerateCount) * ArgDen = inp.subsamples

\* A run over a series of odd length that kept some samples and discarded
\* others.
C23_WholeWitness ==
  /\ out.op = "bootstrap"
  /\ BootN = 5
  /\ inp.subsamples % ArgDen = 0
  /\ out.res.samples_used > 0
  /\ inp.degenerateCount > 0

(***************************************************************************)
(* SpecStability: blockBootstrapR pass by pass over series whose samples   *)
(* have few distinct correlations, so that every split of the kept r       *)
(* values over them is reached.                                            *)
(***************************************************************************)
StabilityJobs ==
  { BootJob(<<0, 2, 1, 3>>, <<0, 3, 1, 2>>, 20 * ArgDen),
    BootJob(<<0, 2, 1, 3>>, <<3, 0, 2, 1>>, 20 * ArgDen) }

InitStability ==
  /\ events = Missing
  /\ audit = Missing
  /\ now = Now0
  /\ inp \in StabilityJobs
  /\ out = NoOut

BootPassUntraced == BootStep(FALSE)

NextStability ==
  \/ BootPassUntraced
  \/ BootFinish

SpecStability == InitStability /\ [][NextStability]_vars

(***************************************************************************)
(* C24: for an informative bootstrap result, stability is "high" if and    *)
(* only if |median_r| >= 0.5 and iqr_r <= 0.2; otherwise "medium" if and   *)
(* only if |median_r| >= 0.3 and iqr_r <= 0.35; otherwise "low"; where     *)
(* median_r and iqr_r are the 0.5 quantile and the distance between the    *)
(* 0.75 and 0.25 quantiles of the sorted kept r values, and iqr_r is never *)
(* negative.  The quantiles are in millionths.                             *)
(***************************************************************************)
KeptMedian == quantile(inp.rs, 50)
KeptIqr == quantile(inp.rs, 75) - quantile(inp.rs, 25)

IsInformativeResult == out.op = "bootstrap" /\ out.res.is_informative

StabilityAsStated ==
  /\ out.res.stability = "high" <=> (Abs(KeptMedian) >= 500000 /\ KeptIqr <= 200000)
  /\ out.res.stability # "high" =>
       (out.res.stability = "medium" <=> (Abs(KeptMedian) >= 300000 /\ KeptIqr <= 350000))
  /\ out.res.stability \in {"high", "medium", "low"}
  /\ KeptIqr >= 0
  /\ out.res.iqr_r >= 0

C24_StabilityRule == IsInformativeResult => StabilityAsStated

\* The same statement away from the thresholds themselves.
OnThreshold == Abs(KeptMedian) \in {500000, 300000} \/ KeptIqr \in {200000, 350000}

C24_OffThreshold == IsInformativeResult /\ ~OnThreshold => StabilityAsStated

C24_OffThresholdWitness ==
  /\ IsInformativeResult
  /\ ~OnThreshold
  /\ out.res.stability = "medium"
  /\ KeptMedian < 0

(***************************************************************************)
(* SpecNotes: buildAssociationBundle over logs that were written day by    *)
(* day: one drift event on each of the last k days, and the same audit     *)
(* records on each of the last k days.  The scores 2, 2, 3 of a day have   *)
(* the average 2.33.                                                       *)
(***************************************************************************)
MaxNoteDays == 3

NoteDayCounts == (0..MaxNoteDays) \cup {7}

DailyEvents(k) ==
  IF k = 0 THEN Missing
  ELSE File([d \in 1..k |-> DriftEvent(IsoStr(Now0 - (k - d) * DAY), Text("alpha"))])

DailyScores(k, scores) ==
  IF k = 0 THEN Missing
  ELSE File([j \in 1..(k * Len(scores)) |->
               Scored(IsoStr(Now0 - (k - 1 - ((j - 1) \div Len(scores))) * DAY),
                      Number(scores[((j - 1) % Len(scores)) + 1]))])

NoteArgs ==
  { [QuickArgs EXCEPT !.window = w, !.metric_y = y] :
      w \in {"7d", "14d"}, y \in {"risk_score_avg", "risk_events"} }

InitNotes ==
  /\ events \in {DailyEvents(k) : k \in NoteDayCounts}
  /\ audit \in {DailyScores(k, scores) : k \in NoteDayCounts, scores \in {<<6>>, <<2, 2, 3>>}}
  /\ now = Now0
  /\ inp \in {[args |-> a] : a \in NoteArgs}
  /\ out = NoOut

NextNotes ==
  \/ CorrelateArgs
  \/ Tick

SpecNotes == InitNotes /\ [][NextNotes]_vars

(***************************************************************************)
(* C25: diagnostics.notes of an association bundle contains "sparse_x"     *)
(* exactly when fewer than 3 days have a nonzero X, "sparse_y" exactly     *)
(* when fewer than 3 days have a nonzero Y, "low_overlap" exactly when     *)
(* fewer than 3 days have both nonzero, and "degenerate_x" (respectively   *)
(* "degenerate_y") exactly when the main Pearson run is degenerate because *)
(* X (respectively Y) has zero variance; nonzero_overlap_days never        *)
(* exceeds nonzero_x_days or nonzero_y_days.  A series of a bundle has at  *)
(* least 7 finite pairs, so the run is degenerate because of a side        *)
(* exactly when all values of that side are equal.                         *)
(***************************************************************************)
NoteGiven(b, s) == \E i \in 1..Len(b.diagnostics.notes) : b.diagnostics.notes[i] = s

DaysWhere(b, P(_)) == Cardinality({i \in 1..Len(b.series) : P(b.series[i])})

ConstantX(b) == \A i, j \in 1..Len(b.series) : b.series[i].x = b.series[j].x
ConstantY(b) == \A i, j \in 1..Len(b.series) : b.series[i].y = b.series[j].y

NotesAsStated(b, degenerateX, degenerateY) ==
  /\ NoteGiven(b, "sparse_x") <=> DaysWhere(b, LAMBDA e : e.x # 0) < 3
  /\ NoteGiven(b, "sparse_y") <=> DaysWhere(b, LAMBDA e : e.y # 0) < 3
  /\ NoteGiven(b, "low_overlap") <=> DaysWhere(b, LAMBDA e : e.x # 0 /\ e.y # 0) < 3
  /\ NoteGiven(b, "degenerate_x") <=> degenerateX
  /\ NoteGiven(b, "degenerate_y") <=> degenerateY
  /\ b.diagnostics.nonzero_x_days = DaysWhere(b, LAMBDA e : e.x # 0)
  /\ b.diagnostics.nonzero_y_days = DaysWhere(b, LAMBDA e : e.y # 0)
  /\ b.diagnostics.nonzero_overlap_days = DaysWhere(b, LAMBDA e : e.x # 0 /\ e.y # 0)
  /\ b.diagnostics.nonzero_overlap_days <= b.diagnostics.nonzero_x_days
  /\ b.diagnostics.nonzero_overlap_days <= b.diagnostics.nonzero_y_days

C25_Notes ==
  IsBundle => NotesAsStated(out.res.val, ConstantX(out.res.val), ConstantY(out.res.val))

\* The same statement with "degenerate" read off results.pearson.degenerate.
C25_NotesAsReported ==
  IsBundle =>
    NotesAsStated(out.res.val,
                  out.res.val.results.pearson.degenerate /\ ConstantX(out.res.val),
                  out.res.val.results.pearson.degenerate /\ ConstantY(out.res.val))

\* A bundle without any "sparse" note whose run is degenerate because of X alone.
C25_ReportedWitness ==
  /\ IsBundle
  /\ out.res.val.diagnostics.notes = <<"degenerate_x">>
  /\ out.res.val.diagnostics.nonzero_overlap_days < out.res.val.diagnostics.nonzero_x_days

(***************************************************************************)
(* SpecTimeline: the drift event log is written line by line and read by   *)
(* buildTimeline with an hour or a day bucket.                             *)
(***************************************************************************)
TimelineLogLines ==
  { BadLine,
    EventLine("drift_event", 1, IsoStr(Now0 - 1), Text("alpha")),
    DriftEvent(IsoStr(Now0 - 1), Text("alpha")),
    DriftEvent(IsoStr(Now0 - 2), Text("beta")),
    DriftEvent(IsoStr(Now0 - 3), Undefined),
    DriftEvent(IsoStr(Now0 + 5), Text("alpha")),
    DriftEvent(IsoStr(Now0 - DAY), Text("beta")),
    DriftEvent(IsoStr(Now0 - 7 * DAY), Text("gamma")),
    DriftEvent(IsoStr(Now0 - 7 * DAY - 1), Text("gamma")),
    DriftEvent(IsoStr(Now0 - 20 * DAY), Text("delta")),
    DriftEvent(Text("not a date"), Text("alpha")),
    DriftEvent(BadObject, Text("alpha")) }

Buckets == {"hour", "day", "week"}

Timeline ==
  /\ out = NoOut
  /\ \E w \in Windows, b \in Buckets :
       out' = [op |-> "timeline", window |-> w, bucket |-> b, now |-> now,
               res |-> buildTimeline(events, w, b, now)]
  /\ UNCHANGED <<events, audit, now, inp>>

NextTimeline ==
  \/ Touch
  \/ AppendEvent(TimelineLogLines)
  \/ Tick
  \/ Timeline

SpecTimeline == InitEnv /\ [][NextTimeline]_vars

(***************************************************************************)
(* C26: buildTimeline includes exactly the drift events whose ts is at or  *)
(* after the window start (now - days) and counts each in the bucket whose *)
(* start is its ts truncated to the UTC hour (bucket = hour) or UTC day    *)
(* (otherwise); the output series is strictly ascending by bucket start    *)
(* with no duplicate bucket, every emitted bucket has events >= 1, and the *)
(* sum of events over the series equals the number of included events.     *)
(***************************************************************************)
BucketTicks == IF out.bucket = "hour" THEN TicksPerHour ELSE DAY

TimelineStart == out.now - windowToDays(out.window) * DAY

\* The lines of the log that are drift events at or after the window start.
Included ==
  {k \in 1..Len(events.lines) :
     /\ events.lines[k].json
     /\ events.lines[k].kind = "drift_event" /\ events.lines[k].v = 2
     /\ events.lines[k].ts.type = "string" /\ events.lines[k].ts.date
     /\ events.lines[k].ts.ms >= TimelineStart}

\* The start of the bucket of an included line: its ts truncated.
Truncated(k) == events.lines[k].ts.ms - (events.lines[k].ts.ms % BucketTicks)

C26_Timeline ==
  out.op = "timeline" /\ ~out.res.threw =>
    LET s == out.res.val.series IN
    /\ \A i \in 1..Len(s) :
         /\ s[i].events >= 1
         /\ s[i].events = Cardinality({k \in Included : Truncated(k) = s[i].t.iso})
    /\ \A k \in Included : \E i \in 1..Len(s) : s[i].t.iso = Truncated(k)
    /\ \A i, j \in 1..Len(s) : i < j => s[i].t.iso < s[j].t.iso
    /\ SumSeq([i \in 1..Len(s) |-> s[i].events]) = Cardinality(Included)

\* An hourly timeline of two buckets, the earlier one holding an event that
\* lies exactly on the window start.
C26_Witness ==
  /\ out.op = "timeline"
  /\ ~out.res.threw
  /\ out.bucket = "hour"
  /\ Len(out.res.val.series) = 2
  /\ \E k \in Included : events.lines[k].ts.ms = TimelineStart

(***************************************************************************)
(* SpecCompare: buildCompare and analyzeDrift over the drift event log,    *)
(* written line by line or holding two batches of events.                  *)
(***************************************************************************)
MaxCompareBatch == 4

CompareLogs ==
  {Missing} \cup
  { File(BatchLog(nOld, age, nNew).lines \o extra) :
      nOld \in 0..MaxCompareBatch, nNew \in 0..MaxCompareBatch, age \in BatchAges,
      extra \in {<<>>, <<DriftEvent(IsoStr(Now0 - 8 * DAY), Text("gamma"))>>,
                 <<DriftEvent(IsoStr(Now0 - 2), Undefined)>>} }

InitCompare ==
  /\ events \in CompareLogs
  /\ audit = Missing
  /\ now = Now0
  /\ inp = NoInp
  /\ out = NoOut

Compare ==
  /\ out = NoOut
  /\ \E w \in Windows :
       out' = [op |-> "compare", window |-> w, now |-> now,
               res |-> buildCompare(events, w, now)]
  /\ UNCHANGED <<events, audit, now, inp>>

NextCompare ==
  \/ Compare
  \/ Analyze
  \/ Tick

SpecCompare == InitCompare /\ [][NextCompare]_vars

(***************************************************************************)
(* C27: buildCompare returns a = {events_prev, unique_modules_prev,        *)
(* density = events_prev / days, expansion = 0} for the previous window    *)
(* and b = the analyzer's current-window values, and delta = b - a field   *)
(* by field: delta.events = b.events - a.events, delta.unique_modules =    *)
(* b.unique_modules - a.unique_modules, delta.expansion = b.expansion, and *)
(* delta.density = b.density - a.density rounded to 2 decimals, with the   *)
(* same days value (7, 14 or 30) as the analyzer used.  Densities are      *)
(* numbers of two decimals, held in hundredths: a density d of n events    *)
(* is the hundredth nearest to n / days.                                   *)
(***************************************************************************)
DensityOf(d, n, days) == 2 * Abs(d * days - 100 * n) <= days

Analyzed == analyzeDrift(events, out.window, out.now)

C27_Compare ==
  out.op = "compare" /\ ~out.res.threw =>
    LET c == out.res.val
        r == Analyzed.val
        days == IF out.window = "14d" THEN 14 ELSE IF out.window = "30d" THEN 30 ELSE 7
    IN /\ ~Analyzed.threw
       /\ c.a.events = r.events_prev
       /\ c.a.unique_modules = r.unique_modules_prev
       /\ DensityOf(c.a.density, r.events_prev, days)
       /\ c.a.expansion = 0
       /\ c.b = [events |-> r.events_current, unique_modules |-> r.unique_modules,
                 density |-> r.density, expansion |-> r.expansion]
       /\ DensityOf(c.b.density, r.events_current, days)
       /\ c.delta.events = c.b.events - c.a.events
       /\ c.delta.unique_modules = c.b.unique_modules - c.a.unique_modules
       /\ c.delta.expansion = c.b.expansion
       /\ c.delta.density = c.b.density - c.a.density

\* Both windows hold events and modules, and the previous density is not a
\* whole number of hundredths before rounding.
C27_Witness ==
  /\ out.op = "compare"
  /\ ~out.res.threw
  /\ out.res.val.a.unique_modules = 2
  /\ out.res.val.b.unique_modules >= 1
  /\ out.res.val.a.events = 3
  /\ out.res.val.a.density * windowToDays(out.window) # 100 * out.res.val.a.events
  /\ out.res.val.delta.density < 0

(***************************************************************************)
(* SpecRisk: buildRiskDailySeries over audit logs of up to MaxScores       *)
(* records, in every order.                                                *)
(***************************************************************************)
MaxScores == 3

RiskLogLines ==
  { BadAuditLine,
    Scored(IsoStr(Now0), Number(40)),
    Scored(IsoStr(Now0 - 2), Number(10)),
    Scored(IsoStr(Now0 - 1), Number(75)),
    Scored(IsoStr(Now0 - DAY), Number(20)),
    Scored(IsoStr(Now0), Undefined),
    Scored(Text("not a date"), Number(20)),
    AuditRec(Text("not a date"), IsoStr(Now0), Undefined, Undefined, Undefined,
             Number(33), Undefined, Undefined),
    AuditRec(Undefined, Undefined, Undefined, Undefined, EpochSec(Now0 - DAY),
             Undefined, Number(60), Undefined) }

InitRisk ==
  /\ events = Missing
  /\ \E n \in 0..MaxScores : \E ls \in [1..n -> RiskLogLines] : audit = File(ls)
  /\ now = Now0
  /\ inp = NoInp
  /\ out = NoOut

NextRisk ==
  \/ RiskDaily
  \/ Tick

SpecRisk == InitRisk /\ [][NextRisk]_vars

(***************************************************************************)
(* C28: for each audit record the risk series builder uses as the record's *)
(* timestamp the first candidate field, in the fixed priority order, that  *)
(* parses successfully (a numeric epoch field read as milliseconds from    *)
(* 1e12 on and as seconds below); the record is dropped only when no       *)
(* candidate parses, so a record whose earlier candidate is an unparsable  *)
(* string but whose later candidate is a valid time is still counted on    *)
(* that later candidate's day.                                             *)
(***************************************************************************)
\* The instant a candidate parses to, NaN when it does not parse.
ParsedCandidate(c) ==
  IF c.type = "string" THEN DateParse(c)
  ELSE IF c.type = "number" THEN Num(EpochRead(c))
  ELSE NaN

RECURSIVE FirstParsed(_)
FirstParsed(cs) ==
  IF cs = <<>> THEN NaN
  ELSE IF ~ParsedCandidate(Head(cs)).nan THEN ParsedCandidate(Head(cs))
  ELSE FirstParsed(Tail(cs))

\* The records whose timestamp, taken by the rule Stamp, lies in [from, to).
RecordsWithin(Stamp(_), from, to) ==
  {k \in 1..Len(audit.lines) :
     /\ audit.lines[k].json
     /\ ~Stamp(audit.lines[k]).nan
     /\ from <= Stamp(audit.lines[k]).n /\ Stamp(audit.lines[k]).n < to}

FirstParsedStamp(l) == FirstParsed(cands(l))

C28_FirstParsedCandidate ==
  out.op = "riskDaily" /\ ~out.res.threw =>
    \A i \in 1..Len(out.res.val) :
      out.res.val[i].risk_events =
        Cardinality(RecordsWithin(FirstParsedStamp, out.res.val[i].t.iso,
                                  out.res.val[i].t.iso + DAY))

\* The same statement for the first candidate that is a non-blank string or
\* a number, whether or not it parses.
FirstCandidateStamp(l) ==
  IF extractTs(l).type = "null" THEN NaN ELSE DateParse(extractTs(l))

C28_FirstCandidate ==
  out.op = "riskDaily" /\ ~out.res.threw =>
    \A i \in 1..Len(out.res.val) :
      out.res.val[i].risk_events =
        Cardinality(RecordsWithin(FirstCandidateStamp, out.res.val[i].t.iso,
                                  out.res.val[i].t.iso + DAY))

\* A record stamped by its numeric seconds field alone was counted.
C28_FirstCandidateWitness ==
  /\ out.op = "riskDaily"
  /\ ~out.res.threw
  /\ \E i \in 1..Len(out.res.val) :
       /\ out.res.val[i].risk_events = 1
       /\ \E k \in RecordsWithin(FirstCandidateStamp, out.res.val[i].t.iso,
                                 out.res.val[i].t.iso + DAY) :
            audit.lines[k].ts.type = "undefined"

(***************************************************************************)
(* C29: in the risk daily series, for each day risk_events equals the      *)
(* number of risk scores resolved for records of that day, risk_score_avg  *)
(* is the arithmetic mean of those scores and risk_score_p95 their         *)
(* linear-interpolated 0.95 quantile (each to 2 decimals), both 0 when the *)
(* day has no score and both between the day's minimum and maximum score   *)
(* otherwise.                                                              *)
(***************************************************************************)
\* The scores resolved for the records among the first k that are stamped
\* within [from, to), in log order.
RECURSIVE ScoresOf(_, _, _)
ScoresOf(k, from, to) ==
  IF k = 0 THEN <<>>
  ELSE LET rest == ScoresOf(k - 1, from, to) IN
       IF /\ k \in RecordsWithin(FirstCandidateStamp, from, to)
          /\ ~extractRiskScore(audit.lines[k]).val.nan
       THEN Append(rest, extractRiskScore(audit.lines[k]).val.n)
       ELSE rest

DayScores(row) == ScoresOf(Len(audit.lines), row.t.iso, row.t.iso + DAY)

\* v is the k-th smallest (k from 0) of the scores s.
KthSmallest(s, k, v) ==
  /\ \E j \in 1..Len(s) : s[j] = v
  /\ Cardinality({j \in 1..Len(s) : s[j] < v}) <= k
  /\ Cardinality({j \in 1..Len(s) : s[j] <= v}) > k

\* p (in hundredths) is the 0.95 quantile of s by linear interpolation
\* between the two order statistics around position 0.95 * (len - 1).
IsP95(s, p) ==
  \E base \in 0..(Len(s) - 1) : \E v0, v1 \in {s[j] : j \in 1..Len(s)} :
    /\ 100 * base <= 95 * (Len(s) - 1)
    /\ 95 * (Len(s) - 1) < 100 * (base + 1)
    /\ KthSmallest(s, base, v0)
    /\ KthSmallest(s, Min(base + 1, Len(s) - 1), v1)
    /\ p = 100 * v0 + (95 * (Len(s) - 1) - 100 * base) * (v1 - v0)

ScoreStatsOk(row, s) ==
  IF Len(s) = 0 THEN row.risk_score_avg = 0 /\ row.risk_score_p95 = 0
  ELSE /\ 2 * Abs(row.risk_score_avg * Len(s) - 100 * SumSeq(s)) <= Len(s)
       /\ IsP95(s, row.risk_score_p95)
       /\ \A j \in 1..Len(s) :
            (\A i \in 1..Len(s) : s[j] <= s[i]) =>
               /\ 100 * s[j] <= row.risk_score_avg
               /\ 100 * s[j] <= row.risk_score_p95
       /\ \A j \in 1..Len(s) :
            (\A i \in 1..Len(s) : s[j] >= s[i]) =>
               /\ row.risk_score_avg <= 100 * s[j]
               /\ row.risk_score_p95 <= 100 * s[j]

C29_DayStats ==
  out.op = "riskDaily" /\ ~out.res.threw =>
    \A i \in 1..Len(out.res.val) :
      /\ out.res.val[i].risk_events = Len(DayScores(out.res.val[i]))
      /\ ScoreStatsOk(out.res.val[i], DayScores(out.res.val[i]))

\* The statistics alone, with risk_events the number of records of the day,
\* scored or not.
C29_ScoreStats ==
  out.op = "riskDaily" /\ ~out.res.threw =>
    \A i \in 1..Len(out.res.val) :
      /\ out.res.val[i].risk_events >= Len(DayScores(out.res.val[i]))
      /\ out.res.val[i].risk_events =
           Cardinality(RecordsWithin(FirstCandidateStamp, out.res.val[i].t.iso,
                                     out.res.val[i].t.iso + DAY))
      /\ ScoreStatsOk(out.res.val[i], DayScores(out.res.val[i]))

\* A day with three different scores: the mean and the quantile differ.
C29_ScoreStatsWitness ==
  /\ out.op = "riskDaily"
  /\ ~out.res.threw
  /\ \E i \in 1..Len(out.res.val) :
       /\ Len(DayScores(out.res.val[i])) = 3
       /\ out.res.val[i].risk_events = 3
       /\ out.res.val[i].risk_score_avg # out.res.val[i].risk_score_p95
       /\ out.res.val[i].risk_score_avg % 100 # 0

(***************************************************************************)
(* SpecContrib: analyzeDrift over logs whose events name up to six modules *)
(* or none, up to MaxPerModule events for a module.                        *)
(***************************************************************************)
MaxPerModule == 2

\* k events of module m, stamped at t.
EventsOf(k, t, m) == [i \in 1..k |-> DriftEvent(IsoStr(t), m)]

ContribLogs ==
  { File(EventsOf(a, Now0 - 1, Text("alpha"))
         \o EventsOf(u, Now0 - 2, Undefined)
         \o EventsOf(b, Now0 - 3, Text("beta"))
         \o EventsOf(g, Now0 - 10 * DAY, Text("gamma"))
         \o EventsOf(e, Now0 - 2, Text(""))
         \o EventsOf(d, Now0 - 4, Text("delta"))
         \o EventsOf(h, Now0 - 5, Text("eta"))
         \o EventsOf(k, Now0 - 6, Text("kappa"))
         \o EventsOf(x, Now0 - 1, Text("alpha"))) :
      a \in 0..MaxPerModule, u \in 0..1, b \in 0..1, g \in 0..MaxPerModule,
      e \in 0..1, d \in 0..1, h \in 0..1, k \in 0..1, x \in 0..1 }

InitContrib ==
  /\ events \in ContribLogs
  /\ audit = Missing
  /\ now = Now0
  /\ inp = NoInp
  /\ out = NoOut

NextContrib ==
  \/ Analyze
  \/ Tick

SpecContrib == InitContrib /\ [][NextContrib]_vars

(***************************************************************************)
(* C30: in every result of analyzeDrift the per-module contributions       *)
(* account for every current-window event exactly once: the sum of         *)
(* drift_units over the modules list equals events_current and equals      *)
(* dominance.total_contribution, and the events that carry no module are   *)
(* counted under "unknown".                                                *)
(***************************************************************************)
\* The log lines that are events of the analysed window.
CurrentEvents ==
  {k \in 1..Len(events.lines) :
     /\ events.lines[k].json
     /\ events.lines[k].kind = "drift_event" /\ events.lines[k].v = 2
     /\ events.lines[k].ts.type = "string" /\ events.lines[k].ts.date
     /\ events.lines[k].ts.ms >= out.now - AnalyzedTicks}

NamedEvents(m) ==
  {k \in CurrentEvents : Truthy(events.lines[k].module) /\ events.lines[k].module.s = m}

UnnamedEvents == {k \in CurrentEvents : ~Truthy(events.lines[k].module)}

UnitsOf(modules, m) ==
  SumSeq([i \in 1..Len(modules) |->
            IF modules[i].module = m THEN modules[i].drift_units ELSE 0])

C30_Contributions ==
  out.op = "analyze" /\ ~out.res.threw =>
    LET r == out.res.val IN
    /\ r.events_current = Cardinality(CurrentEvents)
    /\ SumSeq([i \in 1..Len(r.modules) |-> r.modules[i].drift_units]) = r.events_current
    /\ r.dominance.total_contribution = r.events_current
    /\ \A i, j \in 1..Len(r.modules) : i # j => r.modules[i].module # r.modules[j].module
    /\ \A i \in 1..Len(r.modules) :
         /\ r.modules[i].drift_units > 0
         /\ r.modules[i].module # "unknown" =>
              r.modules[i].drift_units = Cardinality(NamedEvents(r.modules[i].module))
    /\ UnitsOf(r.modules, "unknown") = Cardinality(UnnamedEvents)

\* More modules than the dominance summary lists, two events without a
\* module among them, and an event outside the window.
C30_Witness ==
  /\ out.op = "analyze"
  /\ ~out.res.threw
  /\ Len(out.res.val.modules) > TopN
  /\ UnitsOf(out.res.val.modules, "unknown") = 2
  /\ UnitsOf(out.res.val.modules, "alpha") = 3
  /\ out.res.val.events_current < Len(events.lines)
  /\ out.res.val.dominance.total_contribution > 6

====
